---- MODULE Spec2Model ----
(***************************************************************************)
(* State-machine model of the OMS bridge (theautomatist/oms-bridge):       *)
(* the MQTT runtime-config reconciliation at startup, the user-initiated   *)
(* config update, the SQLite store and the telegram ingestion pipeline.    *)
(*                                                                         *)
(* Python strings are sequences of one-character strings; a topic template *)
(* is a sequence whose replacement fields ("{gateway_id}", "{meter_id}")   *)
(* are single elements, the way str.format parses it.  Python's None is    *)
(* the sentinel sequence None, which is no string of the alphabet.         *)
(***************************************************************************)
EXTENDS Integers, Sequences, FiniteSets, TLC

VARIABLES
    settings,        \* app.config.Settings: the environment, read once
    phase,           \* "created" (create_app returned), "running", "failed"
    mqtt_source,     \* app.state.mqtt_source
    mqtt,            \* app.state.mqtt: [config, last_ok, configured]
    lockHolder,      \* MqttPublisher._lock: the task holding it, or NoTask
    lockWaiters,     \* MqttPublisher._lock: FIFO queue of waiting tasks
    db_mqtt_config,  \* table mqtt_config: no row, or the row with id = 1
    db_meter_keys,   \* table meter_keys: meter_id -> key_hex, None when no row
    db_pending_meters, \* table pending_meters: the meter_ids holding a row
    db_telegrams,    \* table telegrams: a set of rows
    db_seq,          \* sqlite_sequence of telegrams: the last AUTOINCREMENT id
    now,             \* the wall clock _utc_iso() reads
    upd,             \* one update_mqtt_config request per element of Updaters
    tst,             \* one test_mqtt_connection request per element of Testers
    ing,             \* one ingest request per element of Ingests
    thr,             \* one store.add_telegram call per element of Threads
    calls,           \* one call of a MqttPublisher method per element of Callers
    db_tables,       \* whether the database file holds the tables _init_sync creates
    norm             \* one MQTT url on its way through _normalize_mqtt_url

appVars == <<settings, phase, mqtt_source>>
pubVars == <<mqtt, lockHolder, lockWaiters>>
keyVars == <<db_meter_keys, db_pending_meters>>
logVars == <<db_telegrams, db_seq>>
vars == <<settings, phase, mqtt_source, mqtt, lockHolder, lockWaiters,
          db_mqtt_config, db_meter_keys, db_pending_meters, db_telegrams, db_seq,
          now, upd, tst, ing, thr, calls, db_tables, norm>>

-----------------------------------------------------------------------------
(* Bounds of the model *)

\* number of PUT /api/mqtt requests (tasks running update_mqtt_config)
NUpdaters == 2

Updaters == {<<"upd", i>> : i \in 1..NUpdaters}
FirstUpdater == <<"upd", 1>>

\* number of POST /api/mqtt/test requests (tasks running test_mqtt_connection)
NTesters == 2

Testers == {<<"tst", i>> : i \in 1..NTesters}

\* number of POST /v1/telegrams requests (tasks running ingest)
NIngests == 2

Ingests == {<<"ing", i>> : i \in 1..NIngests}

\* number of direct store.add_telegram calls (threads of asyncio.to_thread)
NThreads == 3

Threads == {<<"thr", i>> : i \in 1..NThreads}

\* the store threads that serve PUT and DELETE /api/keys/{meter_id}
KeyWriters == {<<"thr", 1>>, <<"thr", 2>>}

\* longest MQTT_URL the url specification normalizes
MaxUrlLen == 4

\* number of calls made on the MqttPublisher itself
NCallers == 3

Callers == {<<"call", i>> : i \in 1..NCallers}

\* how often the wall clock advances
MaxTicks == 2

NoTask == <<"no_task">>

-----------------------------------------------------------------------------
(* Python values *)

None == <<"None">>

\* bool(s) for an Optional[str]
Truthy(s) == s # None /\ s # <<>>

\* a or b
Or(a, b) == IF Truthy(a) THEN a ELSE b

RECURSIVE LStrip(_)
LStrip(s) == IF s # <<>> /\ Head(s) = " " THEN LStrip(Tail(s)) ELSE s

RECURSIVE RStrip(_)
RStrip(s) == IF s # <<>> /\ s[Len(s)] = " " THEN RStrip(SubSeq(s, 1, Len(s) - 1)) ELSE s

\* str.strip()
Strip(s) == RStrip(LStrip(s))

\* sub in s
Contains(s, sub) ==
    \E i \in 1..(Len(s) - Len(sub) + 1) : SubSeq(s, i, i + Len(sub) - 1) = sub

SchemeSep == <<":", "/", "/">>
MqttScheme == <<"m", "q", "t", "t">> \o SchemeSep

\* mutant: the scheme is prepended also when one is present
normalize_always_prefix(value) ==
    IF value = None THEN None
    ELSE IF Strip(value) = <<>> THEN <<>>
    ELSE MqttScheme \o Strip(value)

_normalize_mqtt_url(value) ==
    IF value = None THEN None
    ELSE LET trimmed == Strip(value)
         IN IF trimmed = <<>> THEN <<>>
            ELSE IF ~Contains(trimmed, SchemeSep) THEN MqttScheme \o trimmed
            ELSE trimmed

\* no url is being normalized
IdleNorm == [pc |-> "idle", value |-> None, result |-> None, again |-> None]

\* on_startup, line 142: _normalize_mqtt_url(raw_mqtt_url), whose result the
\* env branch persists as the url of the config
Normalize ==
    /\ norm.pc = "input"
    /\ norm' = [norm EXCEPT !.pc = "normalized",
                            !.result = _normalize_mqtt_url(norm.value)]
    /\ UNCHANGED <<appVars, pubVars, db_mqtt_config, keyVars, logVars, now, upd, tst,
                   ing, thr, calls, db_tables>>

\* on_startup of a later run, line 148: _normalize_mqtt_url(stored.url), the
\* function applied to its own result
NormalizeAgain ==
    /\ norm.pc = "normalized"
    /\ norm' = [norm EXCEPT !.pc = "renormalized",
                            !.again = _normalize_mqtt_url(norm.result)]
    /\ UNCHANGED <<appVars, pubVars, db_mqtt_config, keyVars, logVars, now, upd, tst,
                   ing, thr, calls, db_tables>>

-----------------------------------------------------------------------------
(* Program constants (main.py) *)

DEFAULT_MQTT_URL ==
    MqttScheme \o <<"l", "o", "c", "a", "l", "h", "o", "s", "t", ":", "1", "8", "8", "3">>
DEFAULT_MQTT_TOPIC ==
    <<"o", "m", "s", "/", "v", "1", "/", "g", "w", "/", "{gateway_id}",
      "/", "m", "e", "t", "e", "r", "/", "{meter_id}",
      "/", "r", "e", "a", "d", "i", "n", "g">>
DEFAULT_MQTT_QOS == 1
DEFAULT_MQTT_RETAIN == FALSE

MqttRuntimeConfig(url, username, password, topic_template, qos, retain) ==
    [url |-> url, username |-> username, password |-> password,
     topic_template |-> topic_template, qos |-> qos, retain |-> retain]

\* the MqttPublisher create_app builds
InitialPublisher ==
    [config |-> MqttRuntimeConfig(DEFAULT_MQTT_URL, None, None, DEFAULT_MQTT_TOPIC,
                                  DEFAULT_MQTT_QOS, DEFAULT_MQTT_RETAIN),
     last_ok |-> FALSE,
     configured |-> FALSE]

-----------------------------------------------------------------------------
(* Inputs *)

UrlB == <<"b">>
UrlC == <<"c">>
TopicA == <<"a", "/", "{gateway_id}", "/", "{meter_id}">>
TopicE == <<"e", "/", "{meter_id}">>
TopicBad == <<"x", "/", "{topic}">>

\* the environment of one deployment
EnvSettings ==
    [mqtt_url : {None, <<" ">>, <<" ">> \o UrlB},
     mqtt_username : {None, <<"u">>},
     mqtt_password : {None, <<"s">>},
     mqtt_topic_template : {None, TopicE \o <<" ">>},
     mqtt_qos : {DEFAULT_MQTT_QOS},
     mqtt_retain : {DEFAULT_MQTT_RETAIN},
     lobaro_token : {<<>>, <<"k">>}]

FirstMeter == <<"A", "1">>

\* meter ids (8 hex characters in the program, shortened here)
Meters == {<<"A", "1">>, <<"B", "2">>}

\* the request body that repeats the values of the fullest environment
BasePayload ==
    [url |-> MqttScheme \o UrlB, username |-> <<"u">>, password |-> None,
     topic_template |-> TopicE, qos |-> 0, retain |-> TRUE]

PayloadFields == {"url", "username", "password", "topic_template", "qos", "retain"}

\* bodies of PUT /api/mqtt: BasePayload and every body that differs from it
\* in one field
MqttConfigPayloads ==
    {p \in [url : {MqttScheme \o UrlB, UrlC},
            username : {None, <<"u">>},
            password : {None, <<>>, <<"s">>, <<"r">>},
            topic_template : {TopicA, TopicE},
            qos : {0},
            retain : {TRUE}] :
        Cardinality({f \in PayloadFields : p[f] # BasePayload[f]}) <= 1}

-----------------------------------------------------------------------------
(* create_app: the env locks, fixed for the life of the process *)

raw_mqtt_url == Or(settings.mqtt_url, <<>>)
lock_url == Truthy(Strip(raw_mqtt_url))
lock_username == Truthy(Strip(Or(settings.mqtt_username, <<>>)))
lock_password == Truthy(Strip(Or(settings.mqtt_password, <<>>)))
lock_topic == Truthy(Strip(Or(settings.mqtt_topic_template, <<>>)))

mqtt_env_locks ==
    [url |-> lock_url, username |-> lock_username,
     password |-> lock_password, topic |-> lock_topic]

-----------------------------------------------------------------------------
(* MqttPublisher *)

\* mutant: a second update_config leaves the Publisher unconfigured
update_config_Toggles(pub, config) ==
    [config |-> config, last_ok |-> FALSE, configured |-> ~pub.configured]

\* update_config, the body under the lock
update_config(pub, config) ==
    [config |-> config, last_ok |-> FALSE, configured |-> TRUE]

\* mutant: acquire does not look at the lock
LockFree_Always == TRUE

\* asyncio.Lock.acquire returns without waiting: the lock is not held and
\* nobody queues for it
LockFree == lockHolder = NoTask /\ lockWaiters = <<>>

\* mutant: leaving the critical section does not release the lock
ReleaseLock_KeepsHolder == UNCHANGED <<lockHolder, lockWaiters>>

\* asyncio.Lock.release: the first waiter is woken and owns the lock
ReleaseLock ==
    /\ lockHolder' = IF lockWaiters = <<>> THEN NoTask ELSE Head(lockWaiters)
    /\ lockWaiters' = IF lockWaiters = <<>> THEN <<>> ELSE Tail(lockWaiters)

\* mutant: the operation does not look at _configured
NotConfigured_NeverRaised(pub) == FALSE

\* test_connection and publish, first statement under the lock (lines 94-95
\* and 110-111): MqttNotConfigured is raised
NotConfigured(pub) == ~pub.configured

\* mutant: a failure leaves _last_ok as it was
AfterConnection_FailureIgnored(pub, outcome) ==
    [pub EXCEPT !.last_ok = IF outcome = "ok" THEN TRUE ELSE pub.last_ok]

\* test_connection and publish after the broker exchange (lines 96-102 and
\* 112-118): _last_ok is set on success, reset on MqttError, and left alone
\* by any other exception, which passes through
AfterConnection(pub, outcome) ==
    [pub EXCEPT !.last_ok = IF outcome = "ok" THEN TRUE
                            ELSE IF outcome = "mqtt_error" THEN FALSE
                            ELSE pub.last_ok]

\* what the caller of test_connection or publish gets
OperationResult(op, outcome) ==
    IF outcome = "ok" THEN "returned"
    ELSE IF outcome = "mqtt_error"
    THEN (IF op = "test_connection" THEN "MqttConnectError" ELSE "MqttPublishError")
    ELSE "other_error"

IdleCall == [pc |-> "idle", op |-> "none", config |-> None, result |-> "none"]

\* caller c is inside `async with self._lock` of its method, before the
\* first await
CallEnter(c, rec) ==
    IF rec.op = "update_config"
    THEN /\ mqtt' = update_config(mqtt, rec.config)
         /\ calls' = [calls EXCEPT ![c] = [rec EXCEPT !.pc = "done", !.result = "returned"]]
    ELSE IF NotConfigured(mqtt)
    THEN /\ mqtt' = mqtt
         /\ calls' = [calls EXCEPT ![c] = [rec EXCEPT !.pc = "done",
                                                       !.result = "MqttNotConfigured"]]
    ELSE /\ mqtt' = mqtt
         /\ calls' = [calls EXCEPT ![c] = [rec EXCEPT !.pc = "connecting"]]

\* a method of the MqttPublisher is called: update_config(config),
\* test_connection() or publish(topic, payload)
Call(c, op, config) ==
    /\ calls[c].pc = "idle"
    /\ LET rec == [IdleCall EXCEPT !.op = op, !.config = config]
       IN IF LockFree
          THEN /\ CallEnter(c, rec)
               /\ lockHolder' = IF calls'[c].pc = "connecting" THEN c ELSE NoTask
               /\ UNCHANGED lockWaiters
          ELSE /\ calls' = [calls EXCEPT ![c] = [rec EXCEPT !.pc = "lock_wait"]]
               /\ lockWaiters' = Append(lockWaiters, c)
               /\ UNCHANGED <<mqtt, lockHolder>>
    /\ UNCHANGED <<appVars, db_mqtt_config, keyVars, logVars, now, upd, tst, ing, thr, db_tables, norm>>

\* the queued call is handed the lock
CallGranted(c) ==
    /\ calls[c].pc = "lock_wait"
    /\ lockHolder = c
    /\ CallEnter(c, calls[c])
    /\ IF calls'[c].pc = "connecting" THEN UNCHANGED <<lockHolder, lockWaiters>>
       ELSE ReleaseLock
    /\ UNCHANGED <<appVars, db_mqtt_config, keyVars, logVars, now, upd, tst, ing, thr, db_tables, norm>>

\* the broker exchange of test_connection or publish ends and the lock is
\* released
CallFinish(c, outcome) ==
    /\ calls[c].pc = "connecting"
    /\ lockHolder = c
    /\ mqtt' = AfterConnection(mqtt, outcome)
    /\ ReleaseLock
    /\ calls' = [calls EXCEPT ![c].pc = "done",
                              ![c].result = OperationResult(calls[c].op, outcome)]
    /\ UNCHANGED <<appVars, db_mqtt_config, keyVars, logVars, now, upd, tst, ing, thr, db_tables, norm>>

-----------------------------------------------------------------------------
(* on_startup: the Config Reconciler *)

mqtt_url == Or(_normalize_mqtt_url(raw_mqtt_url), <<>>)
mqtt_user == Or(Strip(Or(settings.mqtt_username, <<>>)), None)
mqtt_pass == Or(Strip(Or(settings.mqtt_password, <<>>)), None)
env_topic == Or(Strip(Or(settings.mqtt_topic_template, <<>>)), None)

\* _get_mqtt_config_sync, when the row exists
StoredConfig == CHOOSE c \in db_mqtt_config : TRUE

\* mutant: a locked field keeps the persisted value
MergedConfig_StoredWins(stored) ==
    MqttRuntimeConfig(Or(_normalize_mqtt_url(stored.url), stored.url),
                      stored.username, stored.password, stored.topic_template,
                      stored.qos, stored.retain)

\* `merged`, lines 148-156
MergedConfig(stored) ==
    LET stored_url == Or(_normalize_mqtt_url(stored.url), stored.url)
    IN MqttRuntimeConfig(
           IF lock_url THEN mqtt_url ELSE stored_url,
           IF lock_username THEN mqtt_user ELSE stored.username,
           IF lock_password THEN mqtt_pass ELSE stored.password,
           IF lock_topic THEN env_topic ELSE stored.topic_template,
           stored.qos,
           stored.retain)

\* the condition of line 158
MergeWrittenBack == lock_url \/ lock_username \/ lock_password

\* mutant: an unset topic template is not replaced by the default
EnvConfig_NoTopicDefault ==
    MqttRuntimeConfig(mqtt_url, mqtt_user, mqtt_pass, env_topic,
                      settings.mqtt_qos, settings.mqtt_retain)

\* `env_config`, lines 165-172
EnvConfig ==
    MqttRuntimeConfig(mqtt_url, mqtt_user, mqtt_pass,
                      Or(env_topic, DEFAULT_MQTT_TOPIC),
                      settings.mqtt_qos, settings.mqtt_retain)

\* on_startup runs before any request is served, so it is one step
Startup ==
    /\ phase = "created"
    /\ phase' = "running"
    /\ IF db_mqtt_config # {}
       THEN LET merged == MergedConfig(StoredConfig)
            IN /\ mqtt' = update_config(mqtt, merged)
               /\ IF MergeWrittenBack
                  THEN /\ db_mqtt_config' = {merged}
                       /\ mqtt_source' = "db+env"
                  ELSE /\ mqtt_source' = "db"
                       /\ UNCHANGED db_mqtt_config
       ELSE IF Truthy(mqtt_url)
       THEN /\ mqtt' = update_config(mqtt, EnvConfig)
            /\ db_mqtt_config' = {EnvConfig}
            /\ mqtt_source' = "env"
       ELSE /\ mqtt_source' = "none"
            /\ UNCHANGED <<mqtt, db_mqtt_config>>
    /\ db_tables' = TRUE
    /\ UNCHANGED <<settings, lockHolder, lockWaiters, keyVars, logVars, now,
                   upd, tst, ing, thr, calls, norm>>

\* store.set_mqtt_config raises inside on_startup: the Publisher is already
\* updated, the exception leaves on_startup and the application does not start
StartupStoreError ==
    /\ phase = "created"
    /\ \/ db_mqtt_config # {} /\ MergeWrittenBack
       \/ db_mqtt_config = {} /\ Truthy(mqtt_url)
    /\ phase' = "failed"
    /\ mqtt' = update_config(mqtt, IF db_mqtt_config # {}
                                   THEN MergedConfig(StoredConfig) ELSE EnvConfig)
    /\ db_tables' = TRUE
    /\ UNCHANGED <<settings, mqtt_source, lockHolder, lockWaiters, db_mqtt_config,
                   keyVars, logVars, now, upd, tst, ing, thr, calls, norm>>

-----------------------------------------------------------------------------
(* update_mqtt_config: PUT /api/mqtt *)

\* mutant: the username lock is not checked
UpdateRejection_NoUsernameCheck(payload, current, locks) ==
    IF locks.url /\ payload.url # current.url THEN "mqtt_url_locked"
    ELSE IF locks.topic /\ payload.topic_template # current.topic_template
         THEN "mqtt_topic_locked"
    ELSE IF locks.password /\ Truthy(payload.password) /\ payload.password # current.password
         THEN "mqtt_password_locked"
    ELSE "none"

\* mutant: the password lock is not checked
UpdateRejection_NoPasswordCheck(payload, current, locks) ==
    IF locks.url /\ payload.url # current.url THEN "mqtt_url_locked"
    ELSE IF locks.username /\ payload.username # current.username THEN "mqtt_username_locked"
    ELSE IF locks.topic /\ payload.topic_template # current.topic_template
         THEN "mqtt_topic_locked"
    ELSE "none"

\* lines 224-232: the detail of the HTTPException raised, "none" when none is
UpdateRejection(payload, current, locks) ==
    IF locks.url /\ payload.url # current.url THEN "mqtt_url_locked"
    ELSE IF locks.username /\ payload.username # current.username THEN "mqtt_username_locked"
    ELSE IF locks.topic /\ payload.topic_template # current.topic_template
         THEN "mqtt_topic_locked"
    ELSE IF locks.password /\ Truthy(payload.password) /\ payload.password # current.password
         THEN "mqtt_password_locked"
    ELSE "none"

\* mutant: the password of the request is taken as it is
NewConfig_PasswordAsSent(payload, current) ==
    MqttRuntimeConfig(Or(_normalize_mqtt_url(payload.url), payload.url),
                      payload.username, payload.password,
                      payload.topic_template, payload.qos, payload.retain)

\* `new_config`, lines 223 and 233-243
NewConfig(payload, current) ==
    LET normalized_url == Or(_normalize_mqtt_url(payload.url), payload.url)
        password == IF payload.password = None \/ payload.password = <<>>
                    THEN current.password ELSE payload.password
    IN MqttRuntimeConfig(normalized_url, payload.username, password,
                         payload.topic_template, payload.qos, payload.retain)

IdleUpdate == [pc |-> "idle", payload |-> None, new_config |-> None, detail |-> "none"]

\* the handler up to its first await: the lock checks and new_config
UpdateBegin(u, payload) ==
    /\ phase = "running"
    /\ upd[u].pc = "idle"
    /\ LET current == mqtt.config
           detail == UpdateRejection(payload, current, mqtt_env_locks)
       IN upd' = [upd EXCEPT ![u] =
                    IF detail # "none"
                    THEN [pc |-> "rejected", payload |-> payload,
                          new_config |-> None, detail |-> detail]
                    ELSE [pc |-> "store", payload |-> payload,
                          new_config |-> NewConfig(payload, current), detail |-> "none"]]
    /\ UNCHANGED <<appVars, pubVars, db_mqtt_config, keyVars, logVars, now, tst, ing, thr, calls, db_tables, norm>>

\* _set_mqtt_config_sync commits in its thread
UpdateStoreCommit(u) ==
    /\ upd[u].pc = "store"
    /\ db_mqtt_config' = {upd[u].new_config}
    /\ upd' = [upd EXCEPT ![u].pc = "stored"]
    /\ UNCHANGED <<appVars, pubVars, keyVars, logVars, now, tst, ing, thr, calls, db_tables, norm>>

\* _set_mqtt_config_sync raises: the request ends with status 500
UpdateStoreError(u) ==
    /\ upd[u].pc = "store"
    /\ upd' = [upd EXCEPT ![u] = [IdleUpdate EXCEPT !.pc = "failed"]]
    /\ UNCHANGED <<appVars, pubVars, db_mqtt_config, keyVars, logVars, now, tst, ing, thr, calls, db_tables, norm>>

\* the handler resumes and calls mqtt.update_config: with the lock free the
\* body runs at once, otherwise the task queues on the lock
UpdateApply(u) ==
    /\ upd[u].pc = "stored"
    /\ IF LockFree
       THEN /\ mqtt' = update_config(mqtt, upd[u].new_config)
            /\ upd' = [upd EXCEPT ![u] = [IdleUpdate EXCEPT !.pc = "done"]]
            /\ UNCHANGED <<lockHolder, lockWaiters>>
       ELSE /\ lockWaiters' = Append(lockWaiters, u)
            /\ upd' = [upd EXCEPT ![u].pc = "lock_wait"]
            /\ UNCHANGED <<mqtt, lockHolder>>
    /\ UNCHANGED <<appVars, db_mqtt_config, keyVars, logVars, now, tst, ing, thr, calls, db_tables, norm>>

\* the queued update_config is handed the lock
UpdateGranted(u) ==
    /\ upd[u].pc = "lock_wait"
    /\ lockHolder = u
    /\ mqtt' = update_config(mqtt, upd[u].new_config)
    /\ ReleaseLock
    /\ upd' = [upd EXCEPT ![u] = [IdleUpdate EXCEPT !.pc = "done"]]
    /\ UNCHANGED <<appVars, db_mqtt_config, keyVars, logVars, now, tst, ing, thr, calls, db_tables, norm>>

-----------------------------------------------------------------------------
(* test_mqtt_connection: POST /api/mqtt/test, MqttPublisher.test_connection *)

\* what opening the broker connection does
NetOutcomes == {"ok", "mqtt_error", "other_error"}

\* test_connection under the lock, up to the first await
TestEnter(t) ==
    IF ~mqtt.configured
    THEN tst' = [tst EXCEPT ![t].pc = "not_configured"]
    ELSE tst' = [tst EXCEPT ![t].pc = "connecting"]

TestCall(t) ==
    /\ phase = "running"
    /\ tst[t].pc = "idle"
    /\ IF LockFree
       THEN /\ TestEnter(t)
            /\ lockHolder' = IF mqtt.configured THEN t ELSE NoTask
            /\ UNCHANGED lockWaiters
       ELSE /\ lockWaiters' = Append(lockWaiters, t)
            /\ tst' = [tst EXCEPT ![t].pc = "lock_wait"]
            /\ UNCHANGED lockHolder
    /\ UNCHANGED <<appVars, mqtt, db_mqtt_config, keyVars, logVars, now, upd, ing, thr, calls, db_tables, norm>>

TestGranted(t) ==
    /\ tst[t].pc = "lock_wait"
    /\ lockHolder = t
    /\ TestEnter(t)
    /\ IF mqtt.configured THEN UNCHANGED <<lockHolder, lockWaiters>> ELSE ReleaseLock
    /\ UNCHANGED <<appVars, mqtt, db_mqtt_config, keyVars, logVars, now, upd, ing, thr, calls, db_tables, norm>>

\* the connection attempt ends; lines 96-102
TestFinish(t, outcome) ==
    /\ tst[t].pc = "connecting"
    /\ lockHolder = t
    /\ mqtt' = [mqtt EXCEPT !.last_ok =
                    IF outcome = "ok" THEN TRUE
                    ELSE IF outcome = "mqtt_error" THEN FALSE
                    ELSE mqtt.last_ok]
    /\ ReleaseLock
    /\ tst' = [tst EXCEPT ![t].pc =
                    IF outcome = "ok" THEN "ok"
                    ELSE IF outcome = "mqtt_error" THEN "connect_error"
                    ELSE "error"]
    /\ UNCHANGED <<appVars, db_mqtt_config, keyVars, logVars, now, upd, ing, thr, calls, db_tables, norm>>

-----------------------------------------------------------------------------
(* SqliteStore: the telegram log *)

MAX_TELEGRAMS_PER_METER == 20

\* a row of table telegrams; parsed tells whether parsed_json is not NULL
TelegramRow(id, meter_id, received_at, status, parsed) ==
    [id |-> id, meter_id |-> meter_id, received_at |-> received_at,
     status |-> status, parsed |-> parsed]

\* SELECT ... FROM telegrams WHERE meter_id = ?
RowsOf(table, meter_id) == {r \in table : r.meter_id = meter_id}

\* mutant: the trim keeps every row
TopRows_KeepAll(rows, limit) == {rows}

\* SELECT id FROM telegrams WHERE meter_id = ? ORDER BY received_at DESC LIMIT ?
\* SQL leaves the order of rows with equal received_at open, so the result is
\* one of several sets when the limit cuts through such rows
TopRows(rows, limit) ==
    IF Cardinality(rows) <= limit THEN {rows}
    ELSE LET above(t) == {r \in rows : r.received_at > t}
             from(t) == {r \in rows : r.received_at >= t}
             cut == CHOOSE t \in {r.received_at : r \in rows} :
                        Cardinality(above(t)) < limit /\ Cardinality(from(t)) >= limit
             need == limit - Cardinality(above(cut))
         IN {above(cut) \cup T : T \in {S \in SUBSET (from(cut) \ above(cut)) :
                                            Cardinality(S) = need}}

\* the transaction of _add_telegram_sync, lines 263-281: the INSERT, then the
\* DELETE of the meter's rows outside the newest MAX_TELEGRAMS_PER_METER.
\* The set of tables it can commit.
AddTelegramResults(table, seq, meter_id, received_at, status, parsed) ==
    LET inserted == table \cup {TelegramRow(seq + 1, meter_id, received_at, status, parsed)}
    IN {(inserted \ RowsOf(inserted, meter_id)) \cup kept :
           kept \in TopRows(RowsOf(inserted, meter_id), MAX_TELEGRAMS_PER_METER)}

\* the clock advances
Tick ==
    /\ now < MAX_TELEGRAMS_PER_METER - 1 + MaxTicks
    /\ now' = now + 1
    /\ UNCHANGED <<appVars, pubVars, db_mqtt_config, keyVars, logVars, upd, tst, ing, thr, calls, db_tables, norm>>

\* what ingest passes as status and parsed
LogInputs == {<<"published", TRUE>>, <<"pending_key", FALSE>>}

\* store.add_telegram is called: its thread serializes the payload and
\* reads the clock (lines 260-262)
AddTelegramStamp(t, meter_id, status, parsed) ==
    /\ thr[t].pc = "idle"
    /\ thr' = [thr EXCEPT ![t] = [pc |-> "stamped", meter_id |-> meter_id,
                                  status |-> status, parsed |-> parsed,
                                  received_at |-> now]]
    /\ UNCHANGED <<appVars, pubVars, db_mqtt_config, keyVars, logVars, now, upd, tst, ing, calls, db_tables, norm>>

\* the transaction commits
AddTelegramCommit(t) ==
    /\ thr[t].pc = "stamped"
    /\ db_tables
    /\ db_telegrams' \in AddTelegramResults(db_telegrams, db_seq, thr[t].meter_id,
                                            thr[t].received_at, thr[t].status,
                                            thr[t].parsed)
    /\ db_seq' = db_seq + 1
    /\ thr' = [thr EXCEPT ![t] = [pc |-> "done"]]
    /\ UNCHANGED <<appVars, pubVars, db_mqtt_config, keyVars, now, upd, tst, ing, calls, db_tables, norm>>

\* the transaction fails (sqlite3.OperationalError, "database is locked"):
\* it is rolled back and add_telegram raises
AddTelegramError(t) ==
    /\ thr[t].pc = "stamped"
    /\ thr' = [thr EXCEPT ![t] = [pc |-> "error"]]
    /\ UNCHANGED <<appVars, pubVars, db_mqtt_config, keyVars, logVars, now, upd, tst, ing, calls, db_tables, norm>>

\* the INSERT of _add_telegram_sync finds no table telegrams:
\* sqlite3.OperationalError ("no such table: telegrams"), which lines 259-281
\* do not catch, so add_telegram raises it
AddTelegramNoTable(t) ==
    /\ thr[t].pc = "stamped"
    /\ ~db_tables
    /\ thr' = [thr EXCEPT ![t] = [pc |-> "no_such_table", meter_id |-> thr[t].meter_id]]
    /\ UNCHANGED <<appVars, pubVars, db_mqtt_config, keyVars, logVars, now, upd, tst, ing, calls, db_tables, norm>>

\* what SELECT id, received_at, status ... ORDER BY received_at DESC LIMIT ?
\* can return: the ids of the rows
ListResults(table, meter_id, limit) ==
    {{r.id : r \in kept} : kept \in TopRows(RowsOf(table, meter_id), limit)}

\* _list_telegrams_sync, lines 284-293: the SELECT returns the rows, or
\* raises "no such table", which line 294 catches
ListTelegrams(t, meter_id) ==
    /\ thr[t].pc = "idle"
    /\ IF db_tables
       THEN \E rows \in ListResults(db_telegrams, meter_id, MAX_TELEGRAMS_PER_METER) :
                thr' = [thr EXCEPT ![t] = [pc |-> "listed", meter_id |-> meter_id,
                                           rows |-> rows, healed |-> FALSE]]
       ELSE thr' = [thr EXCEPT ![t] = [pc |-> "list_no_table", meter_id |-> meter_id]]
    /\ UNCHANGED <<appVars, pubVars, db_mqtt_config, keyVars, logVars, now, upd, tst, ing, calls, db_tables, norm>>

\* _list_telegrams_sync, lines 295-300: _init_sync creates the tables and
\* the call returns the empty list
ListHeal(t) ==
    /\ thr[t].pc = "list_no_table"
    /\ db_tables' = TRUE
    /\ thr' = [thr EXCEPT ![t] = [pc |-> "listed", meter_id |-> thr[t].meter_id,
                                  rows |-> {}, healed |-> TRUE]]
    /\ UNCHANGED <<appVars, pubVars, db_mqtt_config, keyVars, logVars, now, upd, tst, ing, calls, norm>>

\* what SELECT ... WHERE meter_id = ? AND id = ? returns: the row, or None
DetailResult(table, meter_id, telegram_id) ==
    IF \E r \in RowsOf(table, meter_id) : r.id = telegram_id
    THEN CHOOSE r \in RowsOf(table, meter_id) : r.id = telegram_id
    ELSE None

\* _get_telegram_detail_sync, lines 303-312 and 318-328: the SELECT returns
\* the row or nothing, or raises "no such table", which line 313 catches
GetTelegramDetail(t, meter_id, telegram_id) ==
    /\ thr[t].pc = "idle"
    /\ IF db_tables
       THEN thr' = [thr EXCEPT ![t] = [pc |-> "detailed", meter_id |-> meter_id,
                                       row |-> DetailResult(db_telegrams, meter_id, telegram_id),
                                       healed |-> FALSE]]
       ELSE thr' = [thr EXCEPT ![t] = [pc |-> "detail_no_table", meter_id |-> meter_id]]
    /\ UNCHANGED <<appVars, pubVars, db_mqtt_config, keyVars, logVars, now, upd, tst, ing, calls, db_tables, norm>>

\* _get_telegram_detail_sync, lines 314-319: _init_sync creates the tables
\* and the call returns None
DetailHeal(t) ==
    /\ thr[t].pc = "detail_no_table"
    /\ db_tables' = TRUE
    /\ thr' = [thr EXCEPT ![t] = [pc |-> "detailed", meter_id |-> thr[t].meter_id,
                                  row |-> None, healed |-> TRUE]]
    /\ UNCHANGED <<appVars, pubVars, db_mqtt_config, keyVars, logVars, now, upd, tst, ing, calls, norm>>

-----------------------------------------------------------------------------
(* SqliteStore: meter keys and pending meters *)

KeyOne == <<"1", "1">>
KeyTwo == <<"2", "2">>

\* mutant: the key is stored, the pending row is left
SetKey_KeepsPending(t, meter_id, key_hex) ==
    /\ phase = "running"
    /\ thr[t].pc = "idle"
    /\ db_meter_keys' = [db_meter_keys EXCEPT ![meter_id] = key_hex]
    /\ thr' = [thr EXCEPT ![t] = [pc |-> "key_set", meter_id |-> meter_id,
                                  key_hex |-> key_hex]]
    /\ UNCHANGED <<appVars, pubVars, db_mqtt_config, db_pending_meters, logVars, now,
                   upd, tst, ing, calls, db_tables, norm>>

\* PUT /api/keys/{meter_id}: the transaction of _set_key_sync commits in
\* thread t, the upsert and the DELETE FROM pending_meters together
SetKey(t, meter_id, key_hex) ==
    /\ phase = "running"
    /\ thr[t].pc = "idle"
    /\ db_meter_keys' = [db_meter_keys EXCEPT ![meter_id] = key_hex]
    /\ db_pending_meters' = db_pending_meters \ {meter_id}
    /\ thr' = [thr EXCEPT ![t] = [pc |-> "key_set", meter_id |-> meter_id,
                                  key_hex |-> key_hex]]
    /\ UNCHANGED <<appVars, pubVars, db_mqtt_config, logVars, now, upd, tst, ing, calls, db_tables, norm>>

\* mutant: the telegrams of the meter are left
DeleteKey_KeepsTelegrams(t, meter_id) ==
    /\ phase = "running"
    /\ thr[t].pc = "idle"
    /\ db_meter_keys' = [db_meter_keys EXCEPT ![meter_id] = None]
    /\ db_pending_meters' = db_pending_meters \ {meter_id}
    /\ thr' = [thr EXCEPT ![t] = [pc |-> "key_deleted", meter_id |-> meter_id]]
    /\ UNCHANGED <<appVars, pubVars, db_mqtt_config, logVars, now, upd, tst, ing, calls, db_tables, norm>>

\* DELETE /api/keys/{meter_id}: the transaction of _delete_key_sync commits
\* in thread t, the three DELETEs together
DeleteKey(t, meter_id) ==
    /\ phase = "running"
    /\ thr[t].pc = "idle"
    /\ db_meter_keys' = [db_meter_keys EXCEPT ![meter_id] = None]
    /\ db_pending_meters' = db_pending_meters \ {meter_id}
    /\ db_telegrams' = db_telegrams \ RowsOf(db_telegrams, meter_id)
    /\ thr' = [thr EXCEPT ![t] = [pc |-> "key_deleted", meter_id |-> meter_id]]
    /\ UNCHANGED <<appVars, pubVars, db_mqtt_config, db_seq, now, upd, tst, ing, calls, db_tables, norm>>

\* the transaction of _set_key_sync or _delete_key_sync fails: it is rolled
\* back and the request ends with status 500
KeyWriteError(t) ==
    /\ phase = "running"
    /\ thr[t].pc = "idle"
    /\ thr' = [thr EXCEPT ![t] = [pc |-> "error"]]
    /\ UNCHANGED <<appVars, pubVars, db_mqtt_config, keyVars, logVars, now, upd, tst, ing, calls, db_tables, norm>>

-----------------------------------------------------------------------------
(* ingest: POST /v1/telegrams *)

Unknown == <<"u", "n", "k", "n", "o", "w", "n">>

\* LobaroClient.has_token
has_token == Truthy(settings.lobaro_token)

\* replacement fields str.format cannot fill from gateway_id and meter_id
UnknownFields == {"{topic}"}

\* topic_template.format(...) raises KeyError
FormatRaises(template) == \E i \in DOMAIN template : template[i] \in UnknownFields

\* topic_template.format(gateway_id=..., meter_id=...)
RECURSIVE Format(_, _, _)
Format(template, gateway_id, meter_id) ==
    IF template = <<>> THEN <<>>
    ELSE (IF Head(template) = "{gateway_id}" THEN gateway_id
          ELSE IF Head(template) = "{meter_id}" THEN meter_id
          ELSE <<Head(template)>>) \o Format(Tail(template), gateway_id, meter_id)

\* IngestResponse, returned with status 200 or 202
IngestResponse(status, meter_id, mqtt_topic) ==
    [kind |-> "response", status |-> status, meter_id |-> meter_id,
     mqtt_topic |-> mqtt_topic]

\* HTTPException(status_code=502, detail=...): FastAPI answers {"detail": ...}
HTTPException(detail) ==
    [kind |-> "http_error", status |-> detail, meter_id |-> None, mqtt_topic |-> None]

NoResponse == [kind |-> "none", status |-> "none", meter_id |-> None, mqtt_topic |-> None]

\* `parsed` before parse_meter_data has returned
NoDecode == [kind |-> "none", meterId |-> None]

\* an ingest task: its locals, what it has called so far (decodes, publishes,
\* marks, appends), how its calls ended (lookup: get_key found a key, found
\* none or raised; decoded: what parse_meter_data did) and, once done, what
\* the caller received
IdleIngest ==
    [pc |-> "idle", meter_id |-> None, gateway_id |-> None, key_hex |-> None,
     topic |-> None, log_status |-> "none", log_parsed |-> FALSE, received_at |-> 0,
     result |-> NoResponse, response |-> NoResponse,
     decodes |-> 0, publishes |-> 0, marks |-> 0, appends |-> 0,
     configured_seen |-> "unread", lookup |-> "none", decoded |-> NoDecode]

\* the handler reaches an add_telegram call: `status` and `parsed` are its
\* arguments, `result` is what the handler returns or raises after it
ToLog(rec, status, parsed, result) ==
    [rec EXCEPT !.pc = "log", !.log_status = status, !.log_parsed = parsed,
                !.result = result]

\* lines 345-359: the request is received
IngestReceive(p, id, gateway) ==
    /\ phase = "running"
    /\ ing[p].pc = "idle"
    /\ ing' = [ing EXCEPT ![p] = [IdleIngest EXCEPT !.pc = "get_key", !.meter_id = id,
                                                    !.gateway_id = Or(gateway, Unknown)]]
    /\ UNCHANGED <<appVars, pubVars, db_mqtt_config, keyVars, logVars, now, upd, tst, thr, calls, db_tables, norm>>

\* mutant: the store error is audited like every other outcome
AfterGetKeyError_Logged(rec) ==
    ToLog(rec, "store_error", FALSE, IngestResponse("store_error", rec.meter_id, None))

\* mutant: a failed lookup is taken for a missing key
AfterGetKeyError_MarksPending(rec) ==
    [rec EXCEPT !.pc = "mark_pending"]

\* lines 362-368: get_key raised
AfterGetKeyError(rec) ==
    [rec EXCEPT !.pc = "done",
                !.response = IngestResponse("store_error", rec.meter_id, None)]

\* mutant: a missing key is not noticed
AfterGetKey_NoPendingBranch(rec, key_hex) ==
    IF ~has_token
    THEN ToLog(rec, "lobaro_token_missing", FALSE,
               IngestResponse("lobaro_token_missing", rec.meter_id, None))
    ELSE [rec EXCEPT !.pc = "decode", !.key_hex = key_hex, !.decodes = @ + 1]

\* mutant: the credential is not checked
AfterGetKey_NoTokenCheck(rec, key_hex) ==
    IF ~Truthy(key_hex)
    THEN [rec EXCEPT !.pc = "mark_pending"]
    ELSE [rec EXCEPT !.pc = "decode", !.key_hex = key_hex, !.decodes = @ + 1]

\* lines 361-406, from the key read to the next await
AfterGetKey(rec, key_hex) ==
    IF ~Truthy(key_hex)
    THEN [rec EXCEPT !.pc = "mark_pending"]
    ELSE IF ~has_token
    THEN ToLog(rec, "lobaro_token_missing", FALSE,
               IngestResponse("lobaro_token_missing", rec.meter_id, None))
    ELSE [rec EXCEPT !.pc = "decode", !.key_hex = key_hex, !.decodes = @ + 1]

\* _get_key_sync returns
GetKey(p) ==
    /\ ing[p].pc = "get_key"
    /\ LET key_hex == db_meter_keys[ing[p].meter_id]
           rec == [ing[p] EXCEPT !.lookup = IF key_hex = None THEN "missing" ELSE "found"]
       IN ing' = [ing EXCEPT ![p] = AfterGetKey(rec, key_hex)]
    /\ UNCHANGED <<appVars, pubVars, db_mqtt_config, keyVars, logVars, now, upd, tst, thr, calls, db_tables, norm>>

\* _get_key_sync raises
GetKeyError(p) ==
    /\ ing[p].pc = "get_key"
    /\ ing' = [ing EXCEPT ![p] = AfterGetKeyError([ing[p] EXCEPT !.lookup = "raised"])]
    /\ UNCHANGED <<appVars, pubVars, db_mqtt_config, keyVars, logVars, now, upd, tst, thr, calls, db_tables, norm>>

\* lines 370-384, after mark_pending_meter returned or raised
AfterMarkPending(rec) ==
    ToLog([rec EXCEPT !.marks = @ + 1], "pending_key", FALSE,
          IngestResponse("pending_key", rec.meter_id, None))

\* _mark_pending_meter_sync commits its upsert
MarkPending(p) ==
    /\ ing[p].pc = "mark_pending"
    /\ db_pending_meters' = db_pending_meters \cup {ing[p].meter_id}
    /\ ing' = [ing EXCEPT ![p] = AfterMarkPending(ing[p])]
    /\ UNCHANGED <<appVars, pubVars, db_mqtt_config, db_meter_keys, logVars, now,
                   upd, tst, thr, calls, db_tables, norm>>

\* _mark_pending_meter_sync raises: logged, the handler goes on
MarkPendingError(p) ==
    /\ ing[p].pc = "mark_pending"
    /\ ing' = [ing EXCEPT ![p] = AfterMarkPending(ing[p])]
    /\ UNCHANGED <<appVars, pubVars, db_mqtt_config, keyVars, logVars, now, upd, tst, thr, calls, db_tables, norm>>

\* what parse_meter_data does: a JSON object (with its meterId, None when the
\* key is missing), a JSON value that is no object, LobaroResponseError, or
\* any other exception of the HTTP client
DecodeOutcomes ==
    {[kind |-> "object", meterId |-> v] : v \in {None, <<>>, <<"C", "3">>}}
    \cup {[kind |-> k, meterId |-> None] : k \in {"not_object", "http_error", "transport_error"}}

\* lines 507-517: the handler's `except Exception`
IngestError(rec) ==
    ToLog(rec, "ingest_error", FALSE, IngestResponse("ingest_error", rec.meter_id, None))

\* mutant: the configured check is skipped
AfterDecode_NoConfiguredCheck(rec, outcome, pub) ==
    IF outcome.kind \in {"http_error", "transport_error"}
    THEN ToLog(rec, "lobaro_error", FALSE, IngestResponse("lobaro_error", rec.meter_id, None))
    ELSE IF outcome.kind = "not_object"
    THEN IngestError(rec)
    ELSE LET resolved_meter_id == Or(Or(outcome.meterId, rec.meter_id), Unknown)
         IN IF FormatRaises(pub.config.topic_template)
            THEN IngestError([rec EXCEPT !.configured_seen = "yes"])
            ELSE [rec EXCEPT !.pc = "publish",
                             !.configured_seen = "yes",
                             !.topic = Format(pub.config.topic_template, rec.gateway_id,
                                              resolved_meter_id),
                             !.result = IngestResponse("ok", resolved_meter_id,
                                            Format(pub.config.topic_template,
                                                   rec.gateway_id, resolved_meter_id)),
                             !.publishes = @ + 1]

\* mutant: only LobaroResponseError is caught around parse_meter_data
AfterDecode_OnlyHttpErrorCaught(rec, outcome, pub) ==
    IF outcome.kind = "http_error"
    THEN ToLog(rec, "lobaro_error", FALSE, IngestResponse("lobaro_error", rec.meter_id, None))
    ELSE IF outcome.kind \in {"not_object", "transport_error"}
    THEN IngestError(rec)
    ELSE LET resolved_meter_id == Or(Or(outcome.meterId, rec.meter_id), Unknown)
         IN IF ~pub.configured
            THEN ToLog([rec EXCEPT !.configured_seen = "no"], "mqtt_not_configured", TRUE,
                       IngestResponse("mqtt_not_configured", resolved_meter_id, None))
            ELSE IF FormatRaises(pub.config.topic_template)
            THEN IngestError([rec EXCEPT !.configured_seen = "yes"])
            ELSE [rec EXCEPT !.pc = "publish",
                             !.configured_seen = "yes",
                             !.topic = Format(pub.config.topic_template, rec.gateway_id,
                                              resolved_meter_id),
                             !.result = IngestResponse("ok", resolved_meter_id,
                                            Format(pub.config.topic_template,
                                                   rec.gateway_id, resolved_meter_id)),
                             !.publishes = @ + 1]

\* mutant: the decoded meterId is ignored
AfterDecode_SubmittedId(rec, outcome, pub) ==
    IF outcome.kind \in {"http_error", "transport_error"}
    THEN ToLog(rec, "lobaro_error", FALSE, IngestResponse("lobaro_error", rec.meter_id, None))
    ELSE IF outcome.kind = "not_object"
    THEN IngestError(rec)
    ELSE IF ~pub.configured
    THEN ToLog([rec EXCEPT !.configured_seen = "no"], "mqtt_not_configured", TRUE,
               IngestResponse("mqtt_not_configured", rec.meter_id, None))
    ELSE IF FormatRaises(pub.config.topic_template)
    THEN IngestError([rec EXCEPT !.configured_seen = "yes"])
    ELSE [rec EXCEPT !.pc = "publish",
                     !.configured_seen = "yes",
                     !.topic = Format(pub.config.topic_template, rec.gateway_id, rec.meter_id),
                     !.result = IngestResponse("ok", rec.meter_id,
                                    Format(pub.config.topic_template,
                                           rec.gateway_id, rec.meter_id)),
                     !.publishes = @ + 1]

\* lines 405-482, from the return of parse_meter_data to the call of
\* safe_publish; pub is the Publisher as the handler reads it
AfterDecode(rec, outcome, pub) ==
    IF outcome.kind \in {"http_error", "transport_error"}
    THEN ToLog(rec, "lobaro_error", FALSE, IngestResponse("lobaro_error", rec.meter_id, None))
    ELSE IF outcome.kind = "not_object"
    THEN IngestError(rec)
    ELSE LET resolved_meter_id == Or(Or(outcome.meterId, rec.meter_id), Unknown)
         IN IF ~pub.configured
            THEN ToLog([rec EXCEPT !.configured_seen = "no"], "mqtt_not_configured", TRUE,
                       IngestResponse("mqtt_not_configured", resolved_meter_id, None))
            ELSE IF FormatRaises(pub.config.topic_template)
            THEN IngestError([rec EXCEPT !.configured_seen = "yes"])
            ELSE [rec EXCEPT !.pc = "publish",
                             !.configured_seen = "yes",
                             !.topic = Format(pub.config.topic_template, rec.gateway_id,
                                              resolved_meter_id),
                             !.result = IngestResponse("ok", resolved_meter_id,
                                            Format(pub.config.topic_template,
                                                   rec.gateway_id, resolved_meter_id)),
                             !.publishes = @ + 1]

\* MqttPublisher.publish under the lock, up to the first await (lines 110-113)
PublishEnter(rec, pub) ==
    IF ~pub.configured THEN IngestError(rec) ELSE [rec EXCEPT !.pc = "publishing"]

\* parse_meter_data returns or raises; on success the handler goes on to
\* safe_publish, which takes the lock at once when it is free
DecodeReturn(p, outcome) ==
    /\ ing[p].pc = "decode"
    /\ LET rec == AfterDecode([ing[p] EXCEPT !.decoded = outcome], outcome, mqtt)
       IN IF rec.pc # "publish"
          THEN /\ ing' = [ing EXCEPT ![p] = rec]
               /\ UNCHANGED <<lockHolder, lockWaiters>>
          ELSE IF LockFree
          THEN /\ ing' = [ing EXCEPT ![p] = PublishEnter(rec, mqtt)]
               /\ lockHolder' = IF mqtt.configured THEN p ELSE NoTask
               /\ UNCHANGED lockWaiters
          ELSE /\ ing' = [ing EXCEPT ![p] = [rec EXCEPT !.pc = "lock_wait"]]
               /\ lockWaiters' = Append(lockWaiters, p)
               /\ UNCHANGED lockHolder
    /\ UNCHANGED <<appVars, mqtt, db_mqtt_config, keyVars, logVars, now, upd, tst, thr, calls, db_tables, norm>>

\* the queued publish is handed the lock
PublishGranted(p) ==
    /\ ing[p].pc = "lock_wait"
    /\ lockHolder = p
    /\ ing' = [ing EXCEPT ![p] = PublishEnter(ing[p], mqtt)]
    /\ IF mqtt.configured THEN UNCHANGED <<lockHolder, lockWaiters>> ELSE ReleaseLock
    /\ UNCHANGED <<appVars, mqtt, db_mqtt_config, keyVars, logVars, now, upd, tst, thr, calls, db_tables, norm>>

\* mutant: no `except Exception`: an unexpected error leaves the handler
AfterPublish_Reraise(rec, outcome) ==
    IF outcome = "ok" THEN ToLog(rec, "published", TRUE, rec.result)
    ELSE IF outcome = "mqtt_error"
    THEN ToLog(rec, "mqtt_error", FALSE, HTTPException("mqtt_error"))
    ELSE [rec EXCEPT !.pc = "done",
                     !.response = [kind |-> "exception", status |-> "internal_error",
                                   meter_id |-> None, mqtt_topic |-> None]]

\* mutant: a failed publish is tried again
AfterPublish_Retry(rec, outcome) ==
    IF outcome = "ok" THEN ToLog(rec, "published", TRUE, rec.result)
    ELSE IF outcome = "mqtt_error" /\ rec.publishes < 2
    THEN [rec EXCEPT !.pc = "lock_wait", !.publishes = @ + 1]
    ELSE IF outcome = "mqtt_error"
    THEN ToLog(rec, "mqtt_error", FALSE, HTTPException("mqtt_error"))
    ELSE IngestError(rec)

\* mutant: a failed publish is answered with a response that keeps the topic
AfterPublish_SoftError(rec, outcome) ==
    IF outcome = "ok" THEN ToLog(rec, "published", TRUE, rec.result)
    ELSE IF outcome = "mqtt_error"
    THEN ToLog(rec, "mqtt_error", FALSE, IngestResponse("mqtt_error", rec.meter_id, rec.topic))
    ELSE IngestError(rec)

\* lines 482-517, after safe_publish returned or raised
AfterPublish(rec, outcome) ==
    IF outcome = "ok" THEN ToLog(rec, "published", TRUE, rec.result)
    ELSE IF outcome = "mqtt_error"
    THEN ToLog(rec, "mqtt_error", FALSE, HTTPException("mqtt_error"))
    ELSE IngestError(rec)

\* the broker exchange ends; MqttPublisher.publish lines 112-118
PublishFinish(p, outcome) ==
    /\ ing[p].pc = "publishing"
    /\ lockHolder = p
    /\ mqtt' = [mqtt EXCEPT !.last_ok =
                    IF outcome = "ok" THEN TRUE
                    ELSE IF outcome = "mqtt_error" THEN FALSE
                    ELSE mqtt.last_ok]
    /\ ReleaseLock
    /\ ing' = [ing EXCEPT ![p] = AfterPublish(ing[p], outcome)]
    /\ UNCHANGED <<appVars, db_mqtt_config, keyVars, logVars, now, upd, tst, thr, calls, db_tables, norm>>

\* mutant: a failed append makes the handler fail
AfterAddTelegram_ErrorSurfaces(rec, raised) ==
    [rec EXCEPT !.pc = "done", !.key_hex = None, !.topic = None,
                !.response = IF raised
                             THEN IngestResponse("ingest_error", rec.meter_id, None)
                             ELSE rec.result]

\* the handler after add_telegram returned or raised: the exception is
\* logged and the handler returns (or raises) what it had decided
AfterAddTelegram(rec, raised) ==
    [rec EXCEPT !.pc = "done", !.key_hex = None, !.topic = None,
                !.response = rec.result]

\* add_telegram is called: its thread reads the clock
IngestLogStamp(p) ==
    /\ ing[p].pc = "log"
    /\ ing' = [ing EXCEPT ![p].pc = "log_stamped", ![p].received_at = now,
                          ![p].appends = @ + 1]
    /\ UNCHANGED <<appVars, pubVars, db_mqtt_config, keyVars, logVars, now, upd, tst, thr, calls, db_tables, norm>>

\* the transaction of add_telegram commits and the handler answers
IngestLogCommit(p) ==
    /\ ing[p].pc = "log_stamped"
    /\ db_tables
    /\ db_telegrams' \in AddTelegramResults(db_telegrams, db_seq, ing[p].meter_id,
                                            ing[p].received_at, ing[p].log_status,
                                            ing[p].log_parsed)
    /\ db_seq' = db_seq + 1
    /\ ing' = [ing EXCEPT ![p] = AfterAddTelegram(ing[p], FALSE)]
    /\ UNCHANGED <<appVars, pubVars, db_mqtt_config, keyVars, now, upd, tst, thr, calls, db_tables, norm>>

\* add_telegram raises and the handler answers
IngestLogError(p) ==
    /\ ing[p].pc = "log_stamped"
    /\ ing' = [ing EXCEPT ![p] = AfterAddTelegram(ing[p], TRUE)]
    /\ UNCHANGED <<appVars, pubVars, db_mqtt_config, keyVars, logVars, now, upd, tst, thr, calls, db_tables, norm>>

-----------------------------------------------------------------------------
(* The configuration specification: startup, then config updates and        *)
(* connection tests running concurrently.                                   *)

IdleTest == [pc |-> "idle"]
IdleThread == [pc |-> "idle"]

\* rows of mqtt_config an earlier run of the program left in the database:
\* what update_mqtt_config persists for two request bodies
PersistedInputs ==
    {NewConfig(p, InitialPublisher.config) :
        p \in {[url |-> UrlC, username |-> None, password |-> None,
                topic_template |-> TopicA, qos |-> 0, retain |-> TRUE],
               [url |-> UrlB, username |-> <<"v">>, password |-> <<"r">>,
                topic_template |-> TopicA, qos |-> 2, retain |-> TRUE]}}

\* the state create_app leaves
Created ==
    /\ phase = "created"
    /\ mqtt_source = "none"
    /\ mqtt = InitialPublisher
    /\ lockHolder = NoTask
    /\ lockWaiters = <<>>
    /\ upd = [u \in Updaters |-> IdleUpdate]
    /\ tst = [t \in Testers |-> IdleTest]
    /\ ing = [i \in Ingests |-> IdleIngest]
    /\ thr = [t \in Threads |-> IdleThread]
    /\ calls = [c \in Callers |-> IdleCall]

EmptyKeyTables ==
    /\ db_meter_keys = [m \in Meters |-> None]
    /\ db_pending_meters = {}

EmptyLog ==
    /\ db_tables = TRUE
    /\ db_telegrams = {}
    /\ db_seq = 0

InitCfg ==
    /\ settings \in {s \in EnvSettings :
                        /\ s.lobaro_token = <<"k">>
                        /\ s.mqtt_url = <<" ">> =>
                               /\ s.mqtt_username = None
                               /\ s.mqtt_password = None
                               /\ s.mqtt_topic_template = None}
    /\ Created
    /\ norm = IdleNorm
    /\ db_mqtt_config \in {{}} \cup {{c} : c \in PersistedInputs}
    /\ EmptyKeyTables
    /\ EmptyLog
    /\ now = 0

NextCfg ==
    \/ Startup
    \/ StartupStoreError
    \/ \E u \in Updaters, payload \in MqttConfigPayloads : UpdateBegin(u, payload)
    \/ \E u \in Updaters : UpdateStoreCommit(u)
    \/ \E u \in Updaters : UpdateStoreError(u)
    \/ \E u \in Updaters : UpdateApply(u)
    \/ \E u \in Updaters : UpdateGranted(u)
    \/ \E t \in Testers : TestCall(t)
    \/ \E t \in Testers : TestGranted(t)
    \/ \E t \in Testers, outcome \in NetOutcomes : TestFinish(t, outcome)

SpecCfg == InitCfg /\ [][NextCfg]_vars

-----------------------------------------------------------------------------
(* The ingestion specification: startup on a database that holds the key of *)
(* FirstMeter and no config, then ingest requests running concurrently with *)
(* each other and with one config update.                                   *)

InitIngest ==
    /\ settings \in {s \in EnvSettings :
                        /\ s.mqtt_url # <<" ">>
                        /\ s.mqtt_username = None
                        /\ s.mqtt_password = None
                        /\ s.mqtt_topic_template = None}
    /\ Created
    /\ norm = IdleNorm
    /\ db_mqtt_config = {}
    /\ db_meter_keys = [m \in Meters |-> IF m = FirstMeter THEN KeyOne ELSE None]
    /\ db_pending_meters = {}
    /\ EmptyLog
    /\ now = 0

\* bodies of POST /v1/telegrams: the meter id and the gateway
IngestIds == Meters
IngestGateways == {<<>>, <<"g">>}

\* bodies of PUT /api/mqtt sent while telegrams arrive
IngestSpecPayloads ==
    {[BasePayload EXCEPT !.topic_template = t] : t \in {TopicA, TopicBad}}

NextIngest ==
    \/ Startup
    \/ StartupStoreError
    \/ \E p \in Ingests, id \in IngestIds, gateway \in IngestGateways :
          IngestReceive(p, id, gateway)
    \/ \E p \in Ingests : GetKey(p)
    \/ \E p \in Ingests : GetKeyError(p)
    \/ \E p \in Ingests : MarkPending(p)
    \/ \E p \in Ingests : MarkPendingError(p)
    \/ \E p \in Ingests, outcome \in DecodeOutcomes : DecodeReturn(p, outcome)
    \/ \E p \in Ingests : PublishGranted(p)
    \/ \E p \in Ingests, outcome \in NetOutcomes : PublishFinish(p, outcome)
    \/ \E p \in Ingests : IngestLogStamp(p)
    \/ \E p \in Ingests : IngestLogCommit(p)
    \/ \E p \in Ingests : IngestLogError(p)
    \/ \E payload \in IngestSpecPayloads : UpdateBegin(FirstUpdater, payload)
    \/ UpdateStoreCommit(FirstUpdater)
    \/ UpdateStoreError(FirstUpdater)
    \/ UpdateApply(FirstUpdater)
    \/ UpdateGranted(FirstUpdater)

SpecIngest == InitIngest /\ [][NextIngest]_vars

-----------------------------------------------------------------------------
(* The Publisher specification: config updates, connection tests and the    *)
(* publishes of ingests for a keyed meter contend for the Publisher.        *)

InitPub ==
    /\ settings \in {s \in EnvSettings :
                        /\ s.lobaro_token = <<"k">>
                        /\ s.mqtt_url # <<" ">>
                        /\ s.mqtt_username = None
                        /\ s.mqtt_password = None
                        /\ s.mqtt_topic_template = None}
    /\ Created
    /\ norm = IdleNorm
    /\ db_mqtt_config = {}
    /\ db_meter_keys = [m \in Meters |-> IF m = FirstMeter THEN KeyOne ELSE None]
    /\ db_pending_meters = {}
    /\ EmptyLog
    /\ now = 0

\* what the decoder answers in this specification
PubDecodeOutcomes == {o \in DecodeOutcomes : o.meterId = None /\ o.kind \in {"object", "http_error"}}

NextPub ==
    \/ Startup
    \/ StartupStoreError
    \/ \E p \in Ingests : IngestReceive(p, FirstMeter, <<"g">>)
    \/ \E p \in Ingests : GetKey(p)
    \/ \E p \in Ingests : GetKeyError(p)
    \/ \E p \in Ingests, outcome \in PubDecodeOutcomes : DecodeReturn(p, outcome)
    \/ \E p \in Ingests : PublishGranted(p)
    \/ \E p \in Ingests, outcome \in NetOutcomes : PublishFinish(p, outcome)
    \/ \E p \in Ingests : IngestLogStamp(p)
    \/ \E p \in Ingests : IngestLogCommit(p)
    \/ \E p \in Ingests : IngestLogError(p)
    \/ UpdateBegin(FirstUpdater, BasePayload)
    \/ UpdateStoreCommit(FirstUpdater)
    \/ UpdateStoreError(FirstUpdater)
    \/ UpdateApply(FirstUpdater)
    \/ UpdateGranted(FirstUpdater)
    \/ \E t \in Testers : TestCall(t)
    \/ \E t \in Testers : TestGranted(t)
    \/ \E t \in Testers, outcome \in NetOutcomes : TestFinish(t, outcome)

SpecPub == InitPub /\ [][NextPub]_vars

-----------------------------------------------------------------------------
(* The progress specification: two ingests for a keyed meter, one config    *)
(* update and one connection test contend for the Publisher, under a fair   *)
(* event loop whose awaited calls all return.                               *)

FirstTester == <<"tst", 1>>

\* the steps that need no new request: a call to the store, the decoder or
\* the broker returns, or the event loop resumes a task that is ready (it
\* was handed the lock, or its await completed)
Progress ==
    \/ \E p \in Ingests : GetKey(p)
    \/ \E p \in Ingests : GetKeyError(p)
    \/ \E p \in Ingests, outcome \in PubDecodeOutcomes : DecodeReturn(p, outcome)
    \/ \E p \in Ingests : PublishGranted(p)
    \/ \E p \in Ingests, outcome \in NetOutcomes : PublishFinish(p, outcome)
    \/ \E p \in Ingests : IngestLogStamp(p)
    \/ \E p \in Ingests : IngestLogCommit(p)
    \/ \E p \in Ingests : IngestLogError(p)
    \/ UpdateStoreCommit(FirstUpdater)
    \/ UpdateStoreError(FirstUpdater)
    \/ UpdateApply(FirstUpdater)
    \/ UpdateGranted(FirstUpdater)
    \/ TestGranted(FirstTester)
    \/ \E outcome \in NetOutcomes : TestFinish(FirstTester, outcome)

NextFair ==
    \/ Startup
    \/ StartupStoreError
    \/ \E p \in Ingests : IngestReceive(p, FirstMeter, <<"g">>)
    \/ UpdateBegin(FirstUpdater, BasePayload)
    \/ TestCall(FirstTester)
    \/ Progress

\* a step of Progress that stays possible is taken
SpecFair == InitPub /\ [][NextFair]_vars /\ WF_vars(Progress)

-----------------------------------------------------------------------------
(* The key-store specification: keys are set and deleted while telegrams of *)
(* both meters arrive; the Publisher is never configured.                   *)

InitKeys ==
    /\ settings \in {s \in EnvSettings :
                        /\ s.mqtt_url = None
                        /\ s.mqtt_username = None
                        /\ s.mqtt_password = None
                        /\ s.mqtt_topic_template = None}
    /\ Created
    /\ norm = IdleNorm
    /\ db_mqtt_config = {}
    /\ db_meter_keys = [m \in Meters |-> IF m = FirstMeter THEN KeyOne ELSE None]
    /\ db_pending_meters = {}
    /\ EmptyLog
    /\ now = 0

\* keys sent with PUT /api/keys/{meter_id} (32 hex characters in the program)
KeyInputs == {KeyOne, KeyTwo}

NextKeys ==
    \/ Startup
    \/ \E p \in Ingests, id \in Meters : IngestReceive(p, id, <<"g">>)
    \/ \E p \in Ingests : GetKey(p)
    \/ \E p \in Ingests : GetKeyError(p)
    \/ \E p \in Ingests : MarkPending(p)
    \/ \E p \in Ingests : MarkPendingError(p)
    \/ \E p \in Ingests, outcome \in PubDecodeOutcomes : DecodeReturn(p, outcome)
    \/ \E p \in Ingests : IngestLogStamp(p)
    \/ \E p \in Ingests : IngestLogCommit(p)
    \/ \E p \in Ingests : IngestLogError(p)
    \/ \E t \in KeyWriters, m \in Meters, k \in KeyInputs : SetKey(t, m, k)
    \/ \E t \in KeyWriters, m \in Meters : DeleteKey(t, m)
    \/ \E t \in KeyWriters : KeyWriteError(t)

SpecKeys == InitKeys /\ [][NextKeys]_vars

-----------------------------------------------------------------------------
(* The MqttPublisher specification: the object create_app builds, and calls *)
(* of its three operations in any order and interleaving.                   *)

InitCalls ==
    /\ settings \in {s \in EnvSettings :
                        /\ s.lobaro_token = <<"k">>
                        /\ s.mqtt_url = None
                        /\ s.mqtt_username = None
                        /\ s.mqtt_password = None
                        /\ s.mqtt_topic_template = None}
    /\ Created
    /\ norm = IdleNorm
    /\ db_mqtt_config = {}
    /\ EmptyKeyTables
    /\ EmptyLog
    /\ now = 0

NextCalls ==
    \/ \E c \in Callers, config \in PersistedInputs : Call(c, "update_config", config)
    \/ \E c \in Callers, op \in {"test_connection", "publish"} : Call(c, op, None)
    \/ \E c \in Callers : CallGranted(c)
    \/ \E c \in Callers, outcome \in NetOutcomes : CallFinish(c, outcome)

SpecCalls == InitCalls /\ [][NextCalls]_vars

-----------------------------------------------------------------------------
(* The telegram-log specification: concurrent store.add_telegram calls on a *)
(* database in which one meter is one row short of the retention bound.     *)

\* the log an earlier run left: FirstMeter has MAX_TELEGRAMS_PER_METER - 1
\* rows, appended one per clock value
InitLog ==
    /\ settings \in {s \in EnvSettings :
                        /\ s.lobaro_token = <<"k">>
                        /\ s.mqtt_url = None
                        /\ s.mqtt_username = None
                        /\ s.mqtt_password = None
                        /\ s.mqtt_topic_template = None}
    /\ Created
    /\ norm = IdleNorm
    /\ db_mqtt_config = {}
    /\ EmptyKeyTables
    /\ db_tables = TRUE
    /\ db_telegrams = {TelegramRow(i, FirstMeter, i, "published", TRUE) :
                           i \in 1..(MAX_TELEGRAMS_PER_METER - 1)}
    /\ db_seq = MAX_TELEGRAMS_PER_METER - 1
    /\ now = MAX_TELEGRAMS_PER_METER - 1

NextLog ==
    \/ Tick
    \/ \E t \in Threads, m \in Meters, i \in LogInputs : AddTelegramStamp(t, m, i[1], i[2])
    \/ \E t \in Threads : AddTelegramCommit(t)
    \/ \E t \in Threads : AddTelegramError(t)

SpecLog == InitLog /\ [][NextLog]_vars

-----------------------------------------------------------------------------
(* The late-append specification: the telegram log as in SpecLog, with one  *)
(* add_telegram call that read the clock before the rows now in the table   *)
(* were inserted and has not run its transaction yet                        *)

\* the clock values the delayed call can have read
LateStamps == {0, 1}

InitLate ==
    /\ settings \in {s \in EnvSettings :
                        /\ s.lobaro_token = <<"k">>
                        /\ s.mqtt_url = None
                        /\ s.mqtt_username = None
                        /\ s.mqtt_password = None
                        /\ s.mqtt_topic_template = None}
    /\ phase = "created"
    /\ mqtt_source = "none"
    /\ mqtt = InitialPublisher
    /\ lockHolder = NoTask
    /\ lockWaiters = <<>>
    /\ upd = [u \in Updaters |-> IdleUpdate]
    /\ tst = [t \in Testers |-> IdleTest]
    /\ ing = [i \in Ingests |-> IdleIngest]
    /\ calls = [c \in Callers |-> IdleCall]
    /\ norm = IdleNorm
    /\ \E stamp \in LateStamps :
           thr = [t \in Threads |->
                     IF t = <<"thr", 1>>
                     THEN [pc |-> "stamped", meter_id |-> FirstMeter,
                           status |-> "published", parsed |-> TRUE,
                           received_at |-> stamp]
                     ELSE IdleThread]
    /\ db_mqtt_config = {}
    /\ EmptyKeyTables
    /\ db_tables = TRUE
    /\ db_telegrams = {TelegramRow(i, FirstMeter, i, "published", TRUE) :
                           i \in 1..(MAX_TELEGRAMS_PER_METER - 1)}
    /\ db_seq = MAX_TELEGRAMS_PER_METER - 1
    /\ now = MAX_TELEGRAMS_PER_METER - 1

NextLate ==
    \/ Tick
    \/ \E t \in Threads, m \in Meters, i \in LogInputs : AddTelegramStamp(t, m, i[1], i[2])
    \/ \E t \in Threads : AddTelegramCommit(t)
    \/ \E t \in Threads : AddTelegramError(t)

SpecLate == InitLate /\ [][NextLate]_vars

-----------------------------------------------------------------------------
(* The telegram log of a SqliteStore whose init() has not run: the database *)
(* file holds no tables, the way a file sqlite3.connect just created does   *)

InitSchema ==
    /\ settings \in {s \in EnvSettings :
                        /\ s.lobaro_token = <<"k">>
                        /\ s.mqtt_url = None
                        /\ s.mqtt_username = None
                        /\ s.mqtt_password = None
                        /\ s.mqtt_topic_template = None}
    /\ Created
    /\ norm = IdleNorm
    /\ db_mqtt_config = {}
    /\ EmptyKeyTables
    /\ db_tables = FALSE
    /\ db_telegrams = {}
    /\ db_seq = 0
    /\ now = 0

\* the ids GET /api/meters/{meter_id}/telegrams/{telegram_id} is called with
DetailIds == 1..2

NextSchema ==
    \/ \E t \in Threads, m \in Meters, i \in LogInputs : AddTelegramStamp(t, m, i[1], i[2])
    \/ \E t \in Threads : AddTelegramCommit(t)
    \/ \E t \in Threads : AddTelegramNoTable(t)
    \/ \E t \in Threads, m \in Meters : ListTelegrams(t, m)
    \/ \E t \in Threads : ListHeal(t)
    \/ \E t \in Threads, m \in Meters, id \in DetailIds : GetTelegramDetail(t, m, id)
    \/ \E t \in Threads : DetailHeal(t)

SpecSchema == InitSchema /\ [][NextSchema]_vars

-----------------------------------------------------------------------------
(* The url specification: every value of MQTT_URL up to MaxUrlLen characters *)
(* goes through _normalize_mqtt_url in on_startup, and its result again in  *)
(* the on_startup of a later run                                            *)

\* the characters of MQTT_URL: whitespace, a letter, and those of "://"
UrlAlphabet == {" ", "b", ":", "/"}

\* settings.mqtt_url: Optional[str]
UrlInputs ==
    {None} \cup UNION {[1..n -> UrlAlphabet] : n \in 0..MaxUrlLen}

InitUrl ==
    /\ settings \in {s \in EnvSettings :
                        /\ s.lobaro_token = <<"k">>
                        /\ s.mqtt_url = None
                        /\ s.mqtt_username = None
                        /\ s.mqtt_password = None
                        /\ s.mqtt_topic_template = None}
    /\ Created
    /\ \E value \in UrlInputs :
           norm = [pc |-> "input", value |-> value, result |-> None, again |-> None]
    /\ db_mqtt_config = {}
    /\ EmptyKeyTables
    /\ EmptyLog
    /\ now = 0

NextUrl ==
    \/ Normalize
    \/ NormalizeAgain

SpecUrl == InitUrl /\ [][NextUrl]_vars

-----------------------------------------------------------------------------
(* Claims about the Config Reconciler and the config update *)

\* the environment's value of a lockable field, as the program reads it:
\* trimmed, and for the url normalized
EnvValue(field) ==
    IF field = "url" THEN _normalize_mqtt_url(settings.mqtt_url)
    ELSE IF field = "username" THEN Strip(settings.mqtt_username)
    ELSE IF field = "password" THEN Strip(settings.mqtt_password)
    ELSE Strip(settings.mqtt_topic_template)

StartupStepWithPersisted ==
    phase = "created" /\ phase' # "created" /\ db_mqtt_config # {}

\* C3: at startup with a persisted config, the config applied to the
\* Publisher takes each of url, username, password and topic from the
\* environment when that field is locked and from the persisted row
\* otherwise; qos and retain are the persisted ones.
C3_StartupMergePerField ==
    [][StartupStepWithPersisted =>
        /\ mqtt'.configured
        /\ mqtt'.config.url =
              IF mqtt_env_locks.url THEN EnvValue("url") ELSE StoredConfig.url
        /\ mqtt'.config.username =
              IF mqtt_env_locks.username THEN EnvValue("username") ELSE StoredConfig.username
        /\ mqtt'.config.password =
              IF mqtt_env_locks.password THEN EnvValue("password") ELSE StoredConfig.password
        /\ mqtt'.config.topic_template =
              IF mqtt_env_locks.topic THEN EnvValue("topic") ELSE StoredConfig.topic_template
        /\ mqtt'.config.qos = StoredConfig.qos
        /\ mqtt'.config.retain = StoredConfig.retain]_vars

NoUpdateYet == \A u \in Updaters : upd[u].pc = "idle"

\* C3 witness: startup has merged a persisted row (username "v", qos 2) with
\* an environment that locks url and topic only
C3_Witness ==
    /\ phase = "running"
    /\ NoUpdateYet
    /\ mqtt_env_locks = [url |-> TRUE, username |-> FALSE,
                         password |-> FALSE, topic |-> TRUE]
    /\ mqtt.config = MqttRuntimeConfig(MqttScheme \o UrlB, <<"v">>, <<"r">>, TopicE, 2, TRUE)

\* C4: at startup with a persisted config, the merged config is written
\* back and the source marked "db+env" when any of the four lock flags is
\* true; nothing is written and the source is "db" only when all are false.
C4_WriteBackOnAnyLock ==
    [][(StartupStepWithPersisted /\ phase' = "running") =>
        IF lock_url \/ lock_username \/ lock_password \/ lock_topic
        THEN db_mqtt_config' = {mqtt'.config} /\ mqtt_source' = "db+env"
        ELSE db_mqtt_config' = db_mqtt_config /\ mqtt_source' = "db"]_vars

\* a request body that supplies, for a locked field, a value other than the
\* Publisher's current one (a password is supplied when it is not empty)
LockedFieldChanged(payload, current) ==
    \/ mqtt_env_locks.url /\ payload.url # current.url
    \/ mqtt_env_locks.username /\ payload.username # current.username
    \/ mqtt_env_locks.topic /\ payload.topic_template # current.topic_template
    \/ /\ mqtt_env_locks.password
       /\ payload.password \notin {None, <<>>}
       /\ payload.password # current.password

\* C9: an update changing a locked field is rejected with the field-locked
\* error; the rejection changes neither the store nor the Publisher, and a
\* rejected request writes nothing later.
C9_LockedFieldRejected ==
    [][\A u \in Updaters :
        /\ (upd[u].pc = "idle" /\ upd'[u].pc # "idle"
              /\ LockedFieldChanged(upd'[u].payload, mqtt.config))
            => /\ upd'[u].pc = "rejected"
               /\ upd'[u].detail \in {"mqtt_url_locked", "mqtt_username_locked",
                                      "mqtt_topic_locked", "mqtt_password_locked"}
               /\ db_mqtt_config' = db_mqtt_config
               /\ mqtt' = mqtt
        /\ upd[u].pc = "rejected" => upd'[u].pc = "rejected"]_vars

\* C9 witness: a request with another password was rejected under the
\* password lock
C9_Witness ==
    \E u \in Updaters :
        /\ upd[u].pc = "rejected"
        /\ upd[u].detail = "mqtt_password_locked"
        /\ upd[u].payload.password = <<"r">>
        /\ mqtt.config.password = <<"s">>

\* C10: an update with an empty or absent password builds its config with
\* the password the Publisher held when the request was received, and that
\* config is what the store and then the Publisher receive.
C10_EmptyPasswordKept ==
    [][\A u \in Updaters :
        /\ (upd[u].pc = "idle" /\ upd'[u].pc = "store"
              /\ upd'[u].payload.password \in {None, <<>>})
            => upd'[u].new_config.password = mqtt.config.password
        /\ (upd[u].pc = "store" /\ upd'[u].pc = "stored")
            => db_mqtt_config' = {upd[u].new_config}
        /\ (upd[u].pc \in {"stored", "lock_wait"} /\ upd'[u].pc = "done")
            => mqtt'.config = upd[u].new_config]_vars

\* C10 witness: a request with password "" was persisted with the password
\* "r" that was current
C10_Witness ==
    \E u \in Updaters :
        /\ upd[u].pc = "stored"
        /\ upd[u].payload.password = <<>>
        /\ upd[u].new_config.password = <<"r">>
        /\ db_mqtt_config = {upd[u].new_config}

-----------------------------------------------------------------------------
(* Claims about the telegram log *)

\* C1: in every committed state of the database no meter_id has more than
\* MAX_TELEGRAMS_PER_METER telegram rows, also with appends for the same
\* meter running concurrently: the insert and its trim commit as one step.
C1_AtMostMaxRowsPerMeter ==
    \A m \in Meters : Cardinality(RowsOf(db_telegrams, m)) <= MAX_TELEGRAMS_PER_METER

\* C1 witness: two appends for the full meter have committed and trimmed
\* while a third one, stamped before them, is still in flight
C1_Witness ==
    /\ db_seq >= MAX_TELEGRAMS_PER_METER + 1
    /\ Cardinality(RowsOf(db_telegrams, FirstMeter)) = MAX_TELEGRAMS_PER_METER
    /\ \A r \in RowsOf(db_telegrams, FirstMeter) : r.id >= 2
    /\ \E t \in Threads :
          /\ thr[t].pc = "stamped"
          /\ thr[t].meter_id = FirstMeter
          /\ \E r \in db_telegrams : r.received_at > thr[t].received_at /\ r.id > MAX_TELEGRAMS_PER_METER - 1

-----------------------------------------------------------------------------
(* Claims about the ingestion pipeline *)

Done(p) == ing[p].pc = "done"

\* the status strings of the produced surface
StatusStrings ==
    {"ok", "pending_key", "lobaro_token_missing", "lobaro_error",
     "mqtt_not_configured", "mqtt_error", "store_error", "ingest_error"}

\* C2 as stated: with the Publisher not configured an ingest ends with
\* mqtt_not_configured before the key lookup, so it marks no PendingMeter
\* and does not invoke the decoder.  (configured never goes back to false,
\* so a Publisher unconfigured now was unconfigured during the whole ingest.)
C2_NotConfiguredCheckedFirst ==
    \A p \in Ingests :
        (Done(p) /\ ~mqtt.configured) =>
            /\ ing[p].response.status = "mqtt_not_configured"
            /\ ing[p].marks = 0
            /\ ing[p].decodes = 0

\* C2 amended: Publisher.configured is read after the key lookup, the
\* credential check and a successful decode.  An ingest ends with
\* mqtt_not_configured exactly when it read configured = false there, having
\* invoked the decoder once and marked nothing; it never invokes publish;
\* an ingest that stops earlier ends with its own status.
C2_NotConfiguredCheckedAfterDecode ==
    \A p \in Ingests :
        Done(p) =>
            /\ ing[p].response.status = "mqtt_not_configured"
                  <=> ing[p].configured_seen = "no"
            /\ ing[p].configured_seen = "no"
                  => ing[p].decodes = 1 /\ ing[p].marks = 0 /\ ing[p].publishes = 0
            /\ ~mqtt.configured
                  => /\ ing[p].publishes = 0
                     /\ ing[p].response.status \in
                           {"mqtt_not_configured", "pending_key", "store_error",
                            "lobaro_token_missing", "lobaro_error", "ingest_error"}

\* C2 witness: with the Publisher still unconfigured one ingest has ended
\* with mqtt_not_configured after its decode, another with pending_key
C2_Witness ==
    /\ ~mqtt.configured
    /\ \E p, q \in Ingests :
          /\ Done(p) /\ ing[p].response.status = "mqtt_not_configured"
          /\ ing[p].decodes = 1
          /\ Done(q) /\ ing[q].response.status = "pending_key"
          /\ ing[q].marks = 1

\* the Telegram Log tag of a caller-visible status
LogTag(status) == IF status = "ok" THEN "published" ELSE status

\* C5: every ingest, the store-error branch included, attempts exactly one
\* Telegram Log append, carrying its terminal status, before it responds.
C5_OneAppendPerIngest ==
    \A p \in Ingests :
        Done(p) => /\ ing[p].appends = 1
                   /\ ing[p].log_status = LogTag(ing[p].response.status)

\* C6 as stated: every ingest returns a response value with one of the status
\* strings and the meter_id used; no branch ends in a raised exception.
C6_AlwaysResponseValue ==
    \A p \in Ingests :
        Done(p) => /\ ing[p].response.kind = "response"
                   /\ ing[p].response.status \in StatusStrings
                   /\ ing[p].response.meter_id # None

\* C6 amended: every ingest ends with one of the status strings; every branch
\* but the failed publish returns a response value with the meter_id used,
\* the failed publish raises HTTPException 502 with detail mqtt_error, and
\* no other exception leaves the handler.
C6_StatusOrHttpError ==
    \A p \in Ingests :
        Done(p) =>
            /\ ing[p].response.status \in StatusStrings
            /\ \/ /\ ing[p].response.kind = "response"
                  /\ ing[p].response.status # "mqtt_error"
                  /\ ing[p].response.meter_id \in {ing[p].meter_id, <<"C", "3">>}
               \/ /\ ing[p].response.kind = "http_error"
                  /\ ing[p].response.status = "mqtt_error"
                  /\ ing[p].log_status = "mqtt_error"

\* C6 witness: one ingest ended with the HTTP error of a failed publish,
\* another with the soft status of an unexpected error
C6_Witness ==
    \E p, q \in Ingests :
        /\ Done(p) /\ ing[p].response.kind = "http_error"
        /\ Done(q) /\ ing[q].response.status = "ingest_error" /\ ing[q].publishes = 1

\* C7: what the caller receives carries a topic if and only if its status
\* is ok.
C7_TopicIffOk ==
    \A p \in Ingests :
        Done(p) => (ing[p].response.mqtt_topic # None <=> ing[p].response.status = "ok")

\* C7 witness: an ingest answered ok with the rendered topic, another one
\* answered the failed publish
C7_Witness ==
    \E p, q \in Ingests :
        /\ Done(p) /\ ing[p].response.status = "ok"
        /\ ing[p].response.mqtt_topic = <<"a", "/">> \o Unknown \o <<"/", "C", "3">>
        /\ Done(q) /\ ing[q].response.status = "mqtt_error"

\* C8: whether the Telegram Log append commits or raises, the handler ends
\* with the outcome it had reached before the append: the status of the
\* branch, and after a successful publish ok with the topic.
C8_AppendFailureKeepsOutcome ==
    [][\A p \in Ingests :
        (ing[p].pc = "log_stamped" /\ ing'[p].pc = "done") =>
            /\ ing'[p].response = ing[p].result
            /\ LogTag(ing'[p].response.status) = ing[p].log_status
            /\ ing[p].log_status = "published" => ing'[p].response.mqtt_topic = ing[p].topic]_vars

\* C8 witness: an ingest answered ok with its topic although no append has
\* ever committed
C8_Witness ==
    \E p \in Ingests :
        /\ Done(p)
        /\ ing[p].appends = 1
        /\ db_seq = 0
        /\ ing[p].response.status = "ok"
        /\ ing[p].response.mqtt_topic # None

-----------------------------------------------------------------------------
(* Claims about the Publisher *)

\* the tasks inside a critical section of the Publisher across an await:
\* test_connection opening the connection, publish talking to the broker
\* (update_config has no await under the lock: it enters and leaves in one step)
InCritical ==
    {t \in Testers : tst[t].pc = "connecting"} \cup {p \in Ingests : ing[p].pc = "publishing"}

\* C11: at most one Publisher operation is inside its critical section, it is
\* the one that holds the lock, and while it is inside config, connected and
\* configured change only in the step in which it leaves.
C11_PublisherMutualExclusion ==
    [][/\ Cardinality(InCritical') <= 1
       /\ \A t \in InCritical' : lockHolder' = t
       /\ \A t \in InCritical : mqtt' # mqtt => t \notin InCritical' /\ lockHolder = t]_vars

\* C11 witness: a publish is inside its critical section while a config
\* update and a connection test wait for the lock
C11_Witness ==
    /\ \E p \in Ingests : ing[p].pc = "publishing" /\ lockHolder = p
    /\ Len(lockWaiters) >= 2
    /\ \E u \in Updaters : upd[u].pc = "lock_wait"
    /\ \E t \in Testers : tst[t].pc = "lock_wait"

-----------------------------------------------------------------------------
(* Claims about the branches of the ingestion pipeline *)

\* C12 as stated: an ingest whose key lookup found no key ends with
\* pending_key, the meter has a PendingMeter row then, and neither the
\* decoder nor the Publisher was invoked.
C12_UnknownMeterHasPendingRow ==
    \A p \in Ingests :
        (Done(p) /\ ing[p].lookup = "missing") =>
            /\ ing[p].response.status = "pending_key"
            /\ ing[p].meter_id \in db_pending_meters
            /\ ing[p].decodes = 0
            /\ ing[p].publishes = 0

\* C12 amended: an ingest whose key lookup found no key ends with
\* pending_key after one mark_pending_meter call, without invoking decoder
\* or Publisher; the call either commits, and the row exists then, or raises
\* and leaves the table as it was.
C12_UnknownMeterMarkAttempted ==
    [][\A p \in Ingests :
        /\ (ing'[p].pc = "done" /\ ing'[p].lookup = "missing") =>
               /\ ing'[p].response.status = "pending_key"
               /\ ing'[p].marks = 1
               /\ ing'[p].decodes = 0
               /\ ing'[p].publishes = 0
        /\ ing'[p].lookup = "missing" => ing'[p].decodes = 0 /\ ing'[p].publishes = 0
        /\ (ing[p].pc = "mark_pending" /\ ing'[p].pc # "mark_pending") =>
               /\ ing'[p].marks = 1
               /\ \/ ing[p].meter_id \in db_pending_meters'
                  \/ db_pending_meters' = db_pending_meters]_vars

\* C12 witness: an ingest for the meter without key ended pending_key and
\* the row it wrote is in the table
C12_Witness ==
    \E p \in Ingests :
        /\ Done(p)
        /\ ing[p].lookup = "missing"
        /\ ing[p].response.status = "pending_key"
        /\ ing[p].marks = 1
        /\ db_pending_meters = {ing[p].meter_id}

\* C13: an ingest whose key lookup found a key while the decoder has no
\* credential never invokes the decoder (nor the Publisher) and ends with
\* lobaro_token_missing.
C13_NoTokenNoDecode ==
    \A p \in Ingests :
        (ing[p].lookup = "found" /\ ~has_token) =>
            /\ ing[p].decodes = 0
            /\ ing[p].publishes = 0
            /\ ing[p].pc \in {"log", "log_stamped", "done"}
            /\ ing[p].log_status = "lobaro_token_missing"
            /\ Done(p) => ing[p].response.status = "lobaro_token_missing"

\* C13 witness: an ingest for the keyed meter ended with lobaro_token_missing
C13_Witness ==
    \E p \in Ingests :
        /\ Done(p)
        /\ ing[p].lookup = "found"
        /\ ~has_token
        /\ ing[p].response = IngestResponse("lobaro_token_missing", FirstMeter, None)

\* the meter id the claim names: the decoded meterId if present, else the
\* submitted one, else "unknown"
EffectiveMeterId(decoded, submitted) ==
    IF decoded \notin {None, <<>>} THEN decoded
    ELSE IF submitted \notin {None, <<>>} THEN submitted
    ELSE Unknown

\* C14: when the handler goes from the decode to the publish, the answer it
\* prepares is ok with the effective meter id and the Publisher's topic
\* template of that moment rendered with the gateway id and that meter id;
\* the answer stays as it is while the publish runs, a publish that succeeds
\* is followed by that answer, and ok is answered only this way.
C14_OkResponse ==
    [][\A p \in Ingests :
        LET rec == ing[p]
            new == ing'[p]
            id == EffectiveMeterId(new.decoded.meterId, rec.meter_id)
        IN /\ (rec.pc = "decode" /\ new.pc \in {"publishing", "lock_wait"}) =>
                 /\ new.decoded.kind = "object"
                 /\ new.lookup = "found" /\ has_token
                 /\ new.result = IngestResponse("ok", id,
                                     Format(mqtt.config.topic_template, rec.gateway_id, id))
           /\ (rec.pc \in {"publishing", "lock_wait"} /\ new.log_status \in {"none", "published"})
                 => new.result = rec.result
           /\ rec.log_status = "published"
                 => /\ rec.result.status = "ok"
                    /\ rec.result.meter_id = EffectiveMeterId(rec.decoded.meterId, rec.meter_id)
                    /\ rec.pc = "done" => rec.response = rec.result
           /\ (rec.pc = "done" /\ rec.response.status = "ok") => rec.log_status = "published"]_vars

\* C14 witness: one ingest was answered ok with the decoded meterId and the
\* topic rendered from gateway and that id, another with the submitted id
\* because the decoded meterId was empty
C14_Witness ==
    \E p, q \in Ingests :
        /\ Done(p)
        /\ ing[p].decoded.meterId = <<"C", "3">>
        /\ ing[p].response = IngestResponse("ok", <<"C", "3">>, <<"a", "/", "g", "/", "C", "3">>)
        /\ Done(q)
        /\ ing[q].decoded.meterId = <<>>
        /\ ing[q].response.status = "ok"
        /\ ing[q].response.meter_id = FirstMeter

\* the decoder call failed: HTTP status >= 400 or a failure of the transport
DecodeFailed(rec) == rec.decoded.kind \in {"http_error", "transport_error"}

\* C15 as stated: after a failed decoder call the ingest ends with
\* lobaro_error, the Telegram Log holds a row of the meter with that status
\* and no parsed payload, and the Publisher was not invoked.
C15_DecodeErrorRowRecorded ==
    \A p \in Ingests :
        (Done(p) /\ DecodeFailed(ing[p])) =>
            /\ ing[p].response.status = "lobaro_error"
            /\ ing[p].publishes = 0
            /\ \E r \in RowsOf(db_telegrams, ing[p].meter_id) :
                  r.status = "lobaro_error" /\ ~r.parsed

\* C15 amended: after a failed decoder call the ingest ends with
\* lobaro_error without invoking the Publisher and attempts one append of a
\* row with that status and no parsed payload; the append either inserts
\* that row or raises and leaves the log as it was.
C15_DecodeErrorAppendAttempted ==
    [][\A p \in Ingests :
        LET rec == ing[p]
            new == ing'[p]
        IN /\ DecodeFailed(new) =>
                 /\ new.decodes = 1
                 /\ new.publishes = 0
                 /\ new.log_status = "lobaro_error"
                 /\ ~new.log_parsed
                 /\ new.result = IngestResponse("lobaro_error", new.meter_id, None)
                 /\ new.pc \in {"log", "log_stamped", "done"}
                 /\ new.pc = "done" => new.response = new.result /\ new.appends = 1
           /\ (DecodeFailed(rec) /\ rec.pc = "log_stamped" /\ new.pc = "done") =>
                 \/ db_telegrams' = db_telegrams
                 \/ TelegramRow(db_seq + 1, rec.meter_id, rec.received_at,
                                "lobaro_error", FALSE) \in db_telegrams']_vars

\* C15 witness: an ingest whose decoder call failed in the transport ended
\* with lobaro_error and its row is in the log
C15_Witness ==
    \E p \in Ingests :
        /\ Done(p)
        /\ ing[p].decoded.kind = "transport_error"
        /\ ing[p].response.status = "lobaro_error"
        /\ \E r \in RowsOf(db_telegrams, ing[p].meter_id) :
              r.status = "lobaro_error" /\ ~r.parsed

\* C16: an ingest whose key lookup raised ends at once with store_error and
\* the submitted meter id: it calls neither mark_pending_meter nor the
\* decoder nor the Publisher, and the step leaves the PendingMeter table
\* as it was; store_error is answered in no other case.
C16_LookupErrorIsStoreError ==
    [][\A p \in Ingests :
        LET rec == ing[p]
            new == ing'[p]
        IN /\ new.lookup = "raised" =>
                 /\ new.pc = "done"
                 /\ new.response = IngestResponse("store_error", new.meter_id, None)
                 /\ new.marks = 0
                 /\ new.decodes = 0
                 /\ new.publishes = 0
           /\ (rec.lookup # "raised" /\ new.lookup = "raised") =>
                 db_pending_meters' = db_pending_meters
           /\ new.response.status = "store_error" => new.lookup = "raised"]_vars

\* C16 witness: the lookup for the meter without key raised, the ingest
\* ended with store_error and no PendingMeter row was written
C16_Witness ==
    \E p \in Ingests :
        /\ Done(p)
        /\ ing[p].lookup = "raised"
        /\ ing[p].meter_id # FirstMeter
        /\ ing[p].response.status = "store_error"
        /\ db_pending_meters = {}

\* C17: an ingest calls the decoder at most once and Publisher.publish at
\* most once, publish only after a decode that returned a reading, and once
\* it has reached an outcome it calls neither again.
C17_AtMostOneDeliveryAttempt ==
    [][\A p \in Ingests :
        LET rec == ing[p]
            new == ing'[p]
        IN /\ new.decodes <= 1
           /\ new.publishes <= 1
           /\ new.publishes = 1 => new.decodes = 1 /\ new.decoded.kind = "object"
           /\ new.decodes >= rec.decodes \/ rec.pc = "done"
           /\ rec.pc \in {"log", "log_stamped"} =>
                 /\ new.pc \in {"log", "log_stamped", "done"}
                 /\ new.decodes = rec.decodes
                 /\ new.publishes = rec.publishes
           /\ rec.pc = "done" => new = rec]_vars

\* C17 witness: an ingest whose one publish failed has ended, and another
\* whose one decode failed has ended
C17_Witness ==
    \E p, q \in Ingests :
        /\ Done(p) /\ ing[p].response.status = "mqtt_error"
        /\ ing[p].decodes = 1 /\ ing[p].publishes = 1
        /\ Done(q) /\ ing[q].response.status = "lobaro_error"
        /\ ing[q].decodes = 1 /\ ing[q].publishes = 0

-----------------------------------------------------------------------------
(* Claims about the key store *)

\* the tables hold the same for meter_id before and after the step
MeterUntouched(meter_id) ==
    /\ db_meter_keys'[meter_id] = db_meter_keys[meter_id]
    /\ (meter_id \in db_pending_meters') = (meter_id \in db_pending_meters)
    /\ RowsOf(db_telegrams', meter_id) = RowsOf(db_telegrams, meter_id)

\* C18: the step in which delete_key(meter_id) completes leaves no key, no
\* PendingMeter row and no Telegram row for that meter_id, and leaves the
\* rows of every other meter_id as they were.
C18_DeleteCascades ==
    [][\A t \in Threads :
        (thr[t].pc = "idle" /\ thr'[t].pc = "key_deleted") =>
            LET meter_id == thr'[t].meter_id
            IN /\ db_meter_keys'[meter_id] = None
               /\ meter_id \notin db_pending_meters'
               /\ RowsOf(db_telegrams', meter_id) = {}
               /\ \A other \in Meters \ {meter_id} : MeterUntouched(other)]_vars

\* C18 witness: the key of FirstMeter has been deleted after the one append
\* that ever committed, and the log is empty
C18_Witness ==
    /\ \E t \in Threads : thr[t].pc = "key_deleted" /\ thr[t].meter_id = FirstMeter
    /\ \A t \in Threads : thr[t].pc \in {"idle", "key_deleted"}
    /\ \E p \in Ingests : Done(p) /\ ing[p].meter_id = FirstMeter /\ ing[p].lookup = "found"
    /\ db_meter_keys[FirstMeter] = None
    /\ db_seq = 1
    /\ db_telegrams = {}

\* C19: the step in which set_key(meter_id, key) completes leaves that key
\* and no PendingMeter row for the meter_id and touches no other meter; the
\* key table changes only when a set_key or delete_key of that meter
\* completes, and get_key returns what the table holds, so it returns the
\* last key set.
C19_SetKeyClearsPending ==
    [][/\ \A t \in Threads :
            (thr[t].pc = "idle" /\ thr'[t].pc = "key_set") =>
                LET meter_id == thr'[t].meter_id
                IN /\ db_meter_keys'[meter_id] = thr'[t].key_hex
                   /\ meter_id \notin db_pending_meters'
                   /\ RowsOf(db_telegrams', meter_id) = RowsOf(db_telegrams, meter_id)
                   /\ \A other \in Meters \ {meter_id} : MeterUntouched(other)
       /\ \A m \in Meters :
            db_meter_keys'[m] # db_meter_keys[m] =>
                \E t \in Threads : /\ thr[t].pc = "idle"
                                    /\ thr'[t].pc \in {"key_set", "key_deleted"}
                                    /\ thr'[t].meter_id = m
       /\ \A p \in Ingests :
            (ing[p].pc = "get_key" /\ ing'[p].pc = "decode") =>
                ing'[p].key_hex = db_meter_keys[ing[p].meter_id]]_vars

\* C19 witness: two set_key calls for the meter that had no key have
\* completed, an ingest had found it without key before, the meter has no
\* PendingMeter row and a later ingest is decoding with the key set last
C19_Witness ==
    \E m \in Meters \ {FirstMeter} :
        /\ \A t \in KeyWriters : thr[t].pc = "key_set" /\ thr[t].meter_id = m
        /\ {thr[t].key_hex : t \in KeyWriters} = KeyInputs
        /\ m \notin db_pending_meters
        /\ \E p, q \in Ingests :
              /\ Done(p) /\ ing[p].meter_id = m /\ ing[p].lookup = "missing"
              /\ ing[q].pc = "decode" /\ ing[q].meter_id = m
              /\ ing[q].key_hex = db_meter_keys[m]

\* C20: no meter_id has a MeterKey row and a PendingMeter row at once.
C20_NeverKeyedAndPending ==
    \A m \in Meters : ~(db_meter_keys[m] # None /\ m \in db_pending_meters)

-----------------------------------------------------------------------------
(* Claims about startup without a persisted config, and about the Publisher *)

\* the environment's value of a field, None when it is unset or blank
EnvOrNone(field) ==
    IF EnvValue(field) \in {None, <<>>} THEN None ELSE EnvValue(field)

\* C21: a startup that finds no persisted config and a non-empty normalized
\* environment url applies to the Publisher, and persists, the config made of
\* the environment's values and the defaults, and marks the source "env";
\* with no such url it leaves the Publisher unconfigured, persists nothing
\* and marks the source "none".
C21_StartupFromEnv ==
    [][(phase = "created" /\ phase' = "running" /\ db_mqtt_config = {}) =>
        IF EnvOrNone("url") # None
        THEN /\ mqtt'.configured
             /\ ~mqtt'.last_ok
             /\ mqtt'.config =
                    MqttRuntimeConfig(EnvOrNone("url"), EnvOrNone("username"),
                                      EnvOrNone("password"),
                                      IF EnvOrNone("topic") = None THEN DEFAULT_MQTT_TOPIC
                                      ELSE EnvOrNone("topic"),
                                      settings.mqtt_qos, settings.mqtt_retain)
             /\ db_mqtt_config' = {mqtt'.config}
             /\ mqtt_source' = "env"
        ELSE /\ mqtt' = InitialPublisher
             /\ ~mqtt'.configured
             /\ db_mqtt_config' = {}
             /\ mqtt_source' = "none"]_vars

\* C21 witness: startup has configured the Publisher from an environment
\* that sets the url only, with the default topic
C21_Witness ==
    /\ phase = "running"
    /\ NoUpdateYet
    /\ mqtt_source = "env"
    /\ mqtt.config = MqttRuntimeConfig(MqttScheme \o UrlB, None, None, DEFAULT_MQTT_TOPIC,
                                       DEFAULT_MQTT_QOS, DEFAULT_MQTT_RETAIN)
    /\ mqtt.configured
    /\ db_mqtt_config = {mqtt.config}

\* the step in which the call of c enters the body of its method
CallEnters(c) ==
    calls[c].pc \in {"idle", "lock_wait"} /\ calls'[c].pc \in {"connecting", "done"}

\* the step in which the call of c returns or raises
CallCompletes(c) == calls[c].pc # "done" /\ calls'[c].pc = "done"

\* C22: a test_connection or publish that enters while the Publisher is not
\* configured raises MqttNotConfigured in that step, without going on to the
\* broker, and leaves config, connected and configured as they were;
\* MqttNotConfigured is raised in no other case.
C22_NotConfiguredRaisedFirst ==
    [][\A c \in Callers :
        /\ (CallEnters(c) /\ calls'[c].op \in {"test_connection", "publish"}
               /\ ~mqtt.configured)
             => /\ calls'[c].pc = "done"
                /\ calls'[c].result = "MqttNotConfigured"
                /\ mqtt' = mqtt
        /\ (CallCompletes(c) /\ calls'[c].result = "MqttNotConfigured")
             => ~mqtt.configured /\ calls[c].pc # "connecting"]_vars

\* C22 witness: a test_connection and a publish both raised
\* MqttNotConfigured on the Publisher as it was built
C22_Witness ==
    /\ mqtt = InitialPublisher
    /\ \E c, d \in Callers :
          /\ calls[c] = [IdleCall EXCEPT !.pc = "done", !.op = "test_connection",
                                         !.result = "MqttNotConfigured"]
          /\ calls[d] = [IdleCall EXCEPT !.pc = "done", !.op = "publish",
                                         !.result = "MqttNotConfigured"]

\* C23: connected changes only in the step in which an operation completes:
\* update_config leaves it false, a test_connection or publish that returns
\* leaves it true, one that raises MqttConnectError or MqttPublishError
\* leaves it false, and one that raises anything else does not change it.
C23_ConnectedFollowsLastOperation ==
    [][/\ \A c \in Callers :
            CallCompletes(c) =>
                /\ calls'[c].op = "update_config" =>
                       /\ calls'[c].result = "returned"
                       /\ ~mqtt'.last_ok
                /\ (calls'[c].op # "update_config" /\ calls'[c].result = "returned") =>
                       mqtt'.last_ok
                /\ calls'[c].result \in {"MqttConnectError", "MqttPublishError"} =>
                       ~mqtt'.last_ok
                /\ calls'[c].result \in {"MqttNotConfigured", "other_error"} =>
                       mqtt'.last_ok = mqtt.last_ok
       /\ mqtt'.last_ok # mqtt.last_ok => \E c \in Callers : CallCompletes(c)]_vars

\* C23 witness: after a publish that returned and a test_connection that
\* raised MqttConnectError, connected is false on a configured Publisher
C23_Witness ==
    /\ mqtt.configured
    /\ ~mqtt.last_ok
    /\ \E b, c \in Callers :
          /\ calls[b].pc = "done" /\ calls[b].op = "publish" /\ calls[b].result = "returned"
          /\ calls[c].pc = "done" /\ calls[c].op = "test_connection"
          /\ calls[c].result = "MqttConnectError"

-----------------------------------------------------------------------------
(* Claims about the telegram log on a database without tables *)

\* C24 (as stated): no operation of the telegram log raises because the
\* tables are missing; append, list and detail all create them and complete
C24_NoRaiseOnMissingSchema ==
    \A t \in Threads : thr[t].pc # "no_such_table"

-----------------------------------------------------------------------------
(* Claims about the url normalization *)

\* C25: _normalize_mqtt_url trims whitespace, maps an empty or
\* whitespace-only value to the empty string (never to the default url),
\* prepends "mqtt://" exactly when the trimmed value holds no "://", and
\* is idempotent: normalizing its own result returns that result
C25_NormalizeContract ==
    LET trimmed == Strip(norm.value)
        result == norm.result
    IN /\ (norm.pc \in {"normalized", "renormalized"} /\ norm.value # None) =>
              /\ result = <<>> \/ (Head(result) # " " /\ result[Len(result)] # " ")
              /\ (\A i \in DOMAIN norm.value : norm.value[i] = " ") <=> result = <<>>
              /\ result # <<>> =>
                     /\ ~Contains(trimmed, SchemeSep) <=> result = MqttScheme \o trimmed
                     /\ Contains(trimmed, SchemeSep) <=> result = trimmed
       /\ norm.pc = "renormalized" => norm.again = norm.result

\* a value with leading whitespace and no scheme was normalized twice
C25_Witness ==
    /\ norm.pc = "renormalized"
    /\ norm.value = <<" ", "b", ":", "/">>
    /\ norm.result = MqttScheme \o <<"b", ":", "/">>
    /\ norm.again = norm.result

-----------------------------------------------------------------------------
(* Claims about the retention of the telegram log *)

\* row q is newer than row r: by received_at, ties broken by id
Newer(q, r) ==
    \/ q.received_at > r.received_at
    \/ q.received_at = r.received_at /\ q.id > r.id

\* the rows among `rows` that fewer than MAX_TELEGRAMS_PER_METER rows are newer than
NewestRows(rows) ==
    {r \in rows : Cardinality({q \in rows : Newer(q, r)}) < MAX_TELEGRAMS_PER_METER}

\* C26 (as stated): every append keeps, for its meter, the
\* MAX_TELEGRAMS_PER_METER newest rows by received_at with ties broken by
\* id, and the row it inserted is among them, also when the call took its
\* timestamp before other appends inserted their rows
C26_AppendKeepsNewestAndOwnRow ==
    [][\A t \in Threads :
          (thr[t].pc = "stamped" /\ thr'[t].pc = "done") =>
              LET own == TelegramRow(db_seq + 1, thr[t].meter_id, thr[t].received_at,
                                     thr[t].status, thr[t].parsed)
                  before == RowsOf(db_telegrams, thr[t].meter_id) \cup {own}
              IN /\ own \in db_telegrams'
                 /\ RowsOf(db_telegrams', thr[t].meter_id) = NewestRows(before)]_vars

-----------------------------------------------------------------------------
(* Claims about Publisher.configured *)

\* C27: Publisher.configured is false in the object create_app builds,
\* becomes true only in a step of update_config (on_startup's or a
\* request's) and never becomes false again; the Publisher is configured
\* in every state in which an ingest has read configured = true, so the
\* publish of that ingest passes the configured check and starts the
\* broker exchange whenever it gets the lock
C27_ConfiguredMonotone ==
    /\ [](phase = "created" => ~mqtt.configured)
    /\ [][/\ mqtt.configured => mqtt'.configured
          /\ (~mqtt.configured /\ mqtt'.configured) =>
                 /\ phase = "created" \/ \E u \in Updaters : upd'[u] # upd[u]
                 /\ mqtt' = update_config(mqtt, mqtt'.config)
          /\ \A p \in Ingests :
                 /\ ing'[p].configured_seen = "yes" => mqtt'.configured
                 /\ (ing[p].pc \in {"decode", "lock_wait"} /\ ing'[p].configured_seen = "yes"
                        /\ lockHolder' = p /\ lockHolder \in {p, NoTask}
                        /\ ing'[p] # ing[p]) =>
                        ing'[p].pc = "publishing"]_vars

\* an ingest that read configured = true is in its broker exchange, and
\* update_config replaced the topic template after that ingest formatted
\* its topic
C27_Witness ==
    \E p \in Ingests :
        /\ ing[p].pc = "publishing"
        /\ ing[p].configured_seen = "yes"
        /\ mqtt.configured
        /\ Head(ing[p].topic) # Head(mqtt.config.topic_template)

-----------------------------------------------------------------------------
(* Claims about progress *)

\* the tasks queued on MqttPublisher._lock
Queued == {lockWaiters[i] : i \in DOMAIN lockWaiters}

\* C28: under a fair event loop, with every decoder, broker and store call
\* returning, every ingest that was received reaches its terminal state,
\* and every task queued on the Publisher's lock comes to hold it
C28_IngestsTerminateAndWaitersAcquire ==
    /\ \A p \in Ingests : (ing[p].pc # "idle") ~> Done(p)
    /\ \A x \in Ingests \cup Updaters \cup Testers : (x \in Queued) ~> (lockHolder = x)

\* an ingest, a connection test and a config update contend for the lock:
\* one is in its broker exchange and the two others are queued
C28_Witness ==
    /\ Len(lockWaiters) = 2
    /\ Queued \cap Ingests # {}
    /\ Queued \cap Updaters # {}
    /\ lockHolder \in Testers
    /\ tst[lockHolder].pc = "connecting"

-----------------------------------------------------------------------------
(* Claims about the env locks and the persisted config *)

LockableFields == {"url", "username", "password", "topic"}

\* the value a MqttRuntimeConfig holds for a lockable field
ConfigValue(config, field) ==
    IF field = "url" THEN config.url
    ELSE IF field = "username" THEN config.username
    ELSE IF field = "password" THEN config.password
    ELSE config.topic_template

\* on_startup has given the Publisher a config: the merged one or the
\* environment's (also when writing it to the store then failed)
StartupApplied == mqtt_source # "none" \/ phase = "failed"

\* C29 (as stated): after startup and after any sequence of config updates
\* the Publisher's config holds, for every locked field, the value the
\* environment supplies, also when the environment supplies only a
\* username, a password or a topic and there is no url and no persisted
\* config
C29_LockedFieldsHoldEnvValue ==
    phase # "created" =>
        \A field \in LockableFields :
            mqtt_env_locks[field] => ConfigValue(mqtt.config, field) = EnvValue(field)

\* C29 (amended): after startup and after any sequence of config updates
\* the Publisher's config holds, for every locked field, the environment's
\* value when on_startup gave the Publisher a config, and the value of the
\* Publisher's initial default config when it did not (no persisted config
\* and no url in the environment)
C29_LockedFieldsHoldEnvOrInitialValue ==
    phase # "created" =>
        \A field \in LockableFields :
            mqtt_env_locks[field] =>
                ConfigValue(mqtt.config, field) =
                    IF StartupApplied THEN EnvValue(field)
                    ELSE ConfigValue(InitialPublisher.config, field)

\* the environment supplies a username and no url, nothing was persisted,
\* and a config update has been applied: the Publisher is configured
\* without the environment's username
C29_Witness ==
    /\ phase = "running"
    /\ mqtt_source = "none"
    /\ mqtt_env_locks.username
    /\ ~mqtt_env_locks.url
    /\ mqtt.configured
    /\ mqtt.config.username = None
    /\ \E u \in Updaters : upd[u].pc = "done"

\* update_mqtt_config of request u is between its store write and the end
\* of its update_config
UpdateInProgress(u) == upd[u].pc \in {"store", "stored", "lock_wait"}

\* C30 (as stated): whenever startup is over and no config update is in
\* progress, the row of mqtt_config equals the config of the configured
\* Publisher, for every combination of lock flags at startup and every
\* interleaving of concurrent config updates
C30_StoreEqualsPublisherAtRest ==
    (/\ phase = "running"
     /\ \A u \in Updaters : ~UpdateInProgress(u)
     /\ mqtt.configured) =>
        db_mqtt_config = {mqtt.config}

-----------------------------------------------------------------------------
(* Claims about the config version of a publish *)

\* C31 (as stated): while the publish of an ingest is in its broker
\* exchange, which uses the url, credentials, qos and retain of the
\* Publisher's config, the topic of the message is the one that config's
\* topic template renders, also when update_config ran between the ingest
\* rendering the topic and its publish getting the lock
C31_PublishUsesOneConfigVersion ==
    \A p \in Ingests :
        ing[p].pc = "publishing" =>
            ing[p].topic = Format(mqtt.config.topic_template, ing[p].gateway_id,
                                  ing[p].result.meter_id)

-----------------------------------------------------------------------------
(* Claims about delete_key and the ingests in flight *)

\* ingest p read the key of its meter, and delete_key has removed that key
\* since (only delete_key takes a key away)
KeyDeletedSinceRead(p) ==
    /\ ing[p].lookup = "found"
    /\ db_meter_keys[ing[p].meter_id] = None

\* C32 (as stated): an ingest that read the key of its meter before
\* delete_key of that meter ran writes no Telegram row once the delete has
\* completed: the step that ends its add_telegram leaves the table as it is
C32_NoRowAfterDelete ==
    [][\A p \in Ingests :
          (/\ ing[p].pc = "log_stamped"
           /\ KeyDeletedSinceRead(p)
           /\ ing'[p] # ing[p]) =>
              db_telegrams' = db_telegrams]_vars

====
